---- MODULE Spec2Model ----
(***************************************************************************)
(* Model of the query router of orchestrator-api:                          *)
(*   llm/pattern_analyzer.py  PatternAnalyzer  (intent classifier, cache)  *)
(*   llm/gemini_client.py     GeminiClient     (remote stage, retries)     *)
(*   agents/orchestrator.py   OrchestratorAgent (selector, engine)         *)
(*   mcp/base.py              MCPClient/MCPServer (capability protocol)    *)
(*                                                                         *)
(* Code between two awaits that really suspend runs atomically on the one  *)
(* event loop, so every action is one such segment.                        *)
(*                                                                         *)
(* A query is a sequence of tokens: a token is a word or one blank.  The   *)
(* words are chosen so that each contains exactly one of the keywords the  *)
(* code searches for (or none), hence `kw in query_lower` is token         *)
(* membership after lower-casing.                                          *)
(*                                                                         *)
(* PatternAnalyzer reads three things its constructor never defines:       *)
(* self.fallback_only (line 146), self.fallback_patterns (line 234) and    *)
(* stats["fallback_queries"] (line 158).  The model keeps their presence   *)
(* as state: Init admits the object as constructed (all three absent) and  *)
(* objects on which they have been assigned from outside.                  *)
(***************************************************************************)
EXTENDS Integers, Sequences, FiniteSets, TLC

VARIABLES
    fallback_only,      \* "unset" | "True" | "False"   (attribute of PatternAnalyzer)
    fallback_patterns,  \* "unset" | "set"
    pa_initialized,     \* PatternAnalyzer.initialized
    llm_available,      \* PatternAnalyzer.llm_available
    gc_initialized,     \* GeminiClient.initialized
    analysis_cache,     \* insertion-ordered dict: sequence of [key, val], oldest first
    stats,              \* PatternAnalyzer.stats (a function; a missing key is a KeyError)
    cl_pc,              \* position of the analyze_query call: idle | init | attempt | sleep | done
    cl_owner,           \* who awaits the call: "direct" | "pq"
    cl_query,           \* its query argument
    cl_ctx,             \* its context argument (after `if context is None`)
    attempt,            \* loop variable of generate_content
    ret,                \* outcome of the last analyze_query call
    stages,             \* stages the current/last call attempted, in order (history);
                        \* "gave_up": generate_content raised after its last attempt,
                        \* "intent_fallback": analyze_query_intent used its keyword analysis
    ncalls,             \* analyze_query calls started (history, bounds the run)
    ins_log,            \* keys stored by _cache_result since the cache was last emptied (history)
    evicted,            \* keys the last _cache_result deleted (history)
    matches,            \* <<graph, sql, hybrid>> pattern counts of the heuristic stage in this call (history)
    resources,          \* per agent: registered resource names
    connected_servers,  \* orchestrator's connections
    pq_pc,              \* position of process_query: idle | analyze | single | par | seq1 | seq2,
                        \* of a direct shape call: xjoin, of hybrid_query: hq | orphan
    pq_query,
    pq_ctx,
    pq_analysis,        \* query_analysis of process_query
    pq_strategy,
    tasks,              \* per agent: state of its provider call in the current call
    call_log,           \* provider calls started by this process_query, in order (history)
    payload,            \* what the last process_query returned
    npq,                \* process_query calls started (history, bounds the run)
    tools,              \* per server: registered tool names
    mcp_pc,             \* position of a provider's handle_request: idle | handling
    mcp_msg,            \* the request being made, or the last one made
    mcp_fn,             \* what the invoked resource/tool function did: none | data | raise
    mcp_delivered,      \* messages handed to a provider's handle_request by this request
    mcp_invoked,        \* resource/tool functions invoked for this request
    mcp_response,       \* the message handle_request returned
    mcp_outcome,        \* how request_resource / execute_tool ended for the requester
    mcp_header,         \* id, type and method of the message handle_request returned
    discovery,          \* what the last discover_servers returned
    shape_result,       \* a direct _execute_strategy / _hybrid_query call: pending, or how it ended
    wf_pc,              \* position of _custom_workflow: idle | step (awaiting a tool)
    wf_steps,           \* workflow_steps of the current or last _custom_workflow call
    wf_i,               \* index of the step being run
    wf_results,         \* results, the list _custom_workflow builds
    wf_failed,          \* per step entered, whether it failed (history)
    wf_out,             \* how the last _custom_workflow call ended
    score,              \* the last _calculate_efficiency_score call: its counters and its value
    merge_out,          \* the last _intelligent_merge call: its results argument and its value
    fallback_out,       \* the last _analyze_with_fallback call: query, match counts and its value
    gen_pc,             \* position of a direct generate_content call: idle | init | attempt | sleep
    gen_attempt,        \* its loop variable
    gen_log,            \* its attempts and waits so far, in order (history)
    gen_out,            \* how the last generate_content call ended
    gen_calls,          \* generate_content calls made
    co_pc,              \* per caller, the position of its analyze_query call:
                        \* idle | init | attempt | sleep
    co_query,           \* per caller, the query of its call in flight
    co_attempt,         \* per caller, the loop variable of generate_content
    co_seen,            \* per caller suspended in the remote call, the stats as they were
                        \* when it suspended (history)
    co_ret,             \* per caller, how its last call ended: raised, or the
                        \* analysis_method of the Analysis returned
    co_count            \* calls made, returned and raised, and the most that were in
                        \* flight together (history)

clvars == <<fallback_only, fallback_patterns, pa_initialized, llm_available,
            gc_initialized, analysis_cache, stats, cl_pc, cl_owner, cl_query,
            cl_ctx, attempt, ret, stages, ncalls, ins_log, evicted, matches>>
pqrun == <<connected_servers, pq_pc, pq_query, pq_ctx, pq_analysis,
            pq_strategy, tasks, call_log, payload, npq>>
pqvars == <<resources, pqrun>>
mcpvars == <<tools, mcp_pc, mcp_msg, mcp_fn, mcp_delivered, mcp_invoked, mcp_response,
             mcp_outcome, mcp_header, discovery>>
shvars == <<shape_result>>
wfvars == <<wf_pc, wf_steps, wf_i, wf_results, wf_failed, wf_out>>
genvars == <<gen_pc, gen_attempt, gen_log, gen_out, gen_calls>>
covars == <<co_pc, co_query, co_attempt, co_seen, co_ret, co_count>>
fnvars == <<score, merge_out, fallback_out, genvars, covars>>
vars == <<clvars, pqvars, mcpvars, shvars, wfvars, fnvars>>

(***************************************************************************)
(* Bounds                                                                  *)
(***************************************************************************)
MaxCalls == 2
MaxCacheCalls == 4
MaxPQ == 1
MaxMatch == 1
cache_max_size == 2
max_retries == 2
MaxGen == 3
MaxCoCalls == 3
\* GeminiClient.__init__ line 74, in seconds
base_delay == 1

(***************************************************************************)
(* Inputs                                                                  *)
(***************************************************************************)
Blank == " "
Queries ==
    { <<"esquema">>, <<"ESQUEMA">>, <<Blank, "esquema", Blank>>, <<"grafo", Blank, "tabla">> }
CacheQueries == { <<"esquema">>, <<"stats">>, <<"comparar">>, <<"grafo", Blank, "tabla">> }

\* a context is a dict: a sequence of (key, value) items in insertion order
ItemLang == <<"lang", "es">>
ItemUser == <<"user", "u1">>
Contexts == { <<>>, <<ItemUser, ItemLang>> }

\* the (query, context) arguments of the direct calls
Calls ==
    { <<q, <<>>>> : q \in Queries } \cup { <<<<"esquema">>, <<ItemUser, ItemLang>>>> }

KeyRank(k) == CASE k = "lang" -> 1 [] k = "postgres_data" -> 2 [] k = "user" -> 3 [] OTHER -> 4

(***************************************************************************)
(* str.lower() and str.strip()                                             *)
(***************************************************************************)
LowerTok(t) ==
    CASE t = "ESQUEMA" -> "esquema"
      [] t = "STATS" -> "stats"
      [] t = "GRAFO" -> "grafo"
      [] OTHER -> t

Lower(q) == [i \in 1..Len(q) |-> LowerTok(q[i])]

RECURSIVE LStrip(_)
LStrip(q) == IF q # <<>> /\ Head(q) = Blank THEN LStrip(Tail(q)) ELSE q

RECURSIVE RStrip(_)
RStrip(q) ==
    IF q # <<>> /\ q[Len(q)] = Blank THEN RStrip(SubSeq(q, 1, Len(q) - 1)) ELSE q

Strip(q) == RStrip(LStrip(q))

\* `kw in query_lower`: the words of the queries are chosen so that a keyword occurs
\* in a query exactly when it is one of its words ("compare" does not contain
\* "comparar", nor "statistics" "stats")
Contains(ql, kw) == \E i \in 1..Len(ql) : ql[i] = kw
ContainsAny(ql, kws) == \E kw \in kws : Contains(ql, kw)

(***************************************************************************)
(* sorted(context.items()): insertion sort on the key                      *)
(***************************************************************************)
RECURSIVE InsertItem(_, _)
InsertItem(it, s) ==
    IF s = <<>> THEN <<it>>
    ELSE IF KeyRank(it[1]) <= KeyRank(Head(s)[1]) THEN <<it>> \o s
    ELSE <<Head(s)>> \o InsertItem(it, Tail(s))

RECURSIVE SortedItems(_)
SortedItems(c) == IF c = <<>> THEN <<>> ELSE InsertItem(Head(c), SortedItems(Tail(c)))

\* PatternAnalyzer._generate_cache_key (keys this short are never hashed)
GenerateCacheKey(query, context) == <<Strip(Lower(query)), SortedItems(context)>>

(***************************************************************************)
(* Remote stage: GeminiClient                                              *)
(***************************************************************************)
\* JSON values the model may put in a boolean field, and Python's bool() of them
RawValues == {"true", "false", "str"}
Bool(v) == v \in {"true", "str"}

RawComplexity == {"hybrid", "bogus"}

\* text returned by the model: not JSON at all, or an object that may lack a required field
Responses ==
    [kind : {"garbage"}, needs_postgresql : {"false"}, needs_neo4j : {"false"},
     needs_both : {"false"}, complexity : {"simple"}, has_reasoning : {FALSE}]
    \cup
    [kind : {"object"}, needs_postgresql : {"true", "false"}, needs_neo4j : {"false", "str"},
     needs_both : RawValues, complexity : RawComplexity, has_reasoning : {TRUE}]
    \cup
    [kind : {"object"}, needs_postgresql : {"true"}, needs_neo4j : {"false"},
     needs_both : {"false"}, complexity : {"simple"}, has_reasoning : {FALSE}]

\* the responses used where the cache, not the remote stage, is under study
CacheResponses ==
    { resp \in Responses : /\ resp.needs_postgresql = "true"
                           /\ resp.needs_neo4j = "false"
                           /\ resp.complexity = "bogus"
                           /\ resp.needs_both \in {"true", "false"} }

\* GeminiClient._parse_analysis_response followed by the required-field check
ParseOk(resp) == resp.kind = "object" /\ resp.has_reasoning

\* GeminiClient._validate_analysis_result, without the final consistency step
ValidateAnalysisResultNoConsistency(resp) ==
    [needs_postgresql |-> Bool(resp.needs_postgresql),
     needs_neo4j      |-> Bool(resp.needs_neo4j),
     needs_both       |-> Bool(resp.needs_both),
     complexity       |-> IF resp.complexity \in {"simple", "hybrid", "complex"}
                          THEN resp.complexity ELSE "simple",
     reasoning        |-> "model"]

\* GeminiClient._validate_analysis_result
ValidateAnalysisResult(resp) ==
    LET nb == Bool(resp.needs_both) IN
    [needs_postgresql |-> IF nb THEN TRUE ELSE Bool(resp.needs_postgresql),
     needs_neo4j      |-> IF nb THEN TRUE ELSE Bool(resp.needs_neo4j),
     needs_both       |-> nb,
     complexity       |-> IF resp.complexity \in {"simple", "hybrid", "complex"}
                          THEN resp.complexity ELSE "simple",
     reasoning        |-> "model"]

\* lines 408-419
sql_keywords ==
    {"tabla", "table", "contar", "count", "suma", "sum", "promedio", "average",
     "estadística", "statistic", "registro", "record", "columna", "column",
     "filtro", "filter"}
graph_keywords ==
    {"grafo", "graph", "relación", "relation", "conexión", "connection", "nodo", "node",
     "camino", "path", "red", "network", "similar", "recomendación", "recommendation",
     "patrón", "pattern"}

\* GeminiClient._fallback_intent_analysis
FallbackIntentAnalysis(query) ==
    LET ql  == Lower(query)
        pg0 == ContainsAny(ql, sql_keywords)
        neo0 == ContainsAny(ql, graph_keywords)
        none == ~pg0 /\ ~neo0
        both == (pg0 /\ neo0) \/ none
    IN  [needs_postgresql |-> pg0 \/ none,
         needs_neo4j      |-> neo0 \/ none,
         needs_both       |-> both,
         complexity       |-> IF both THEN "hybrid" ELSE "simple",
         reasoning        |-> "keyword_fallback"]

\* GeminiClient.analyze_query_intent once generate_content has returned resp
IntentFromResponse(query, resp) ==
    IF ParseOk(resp) THEN ValidateAnalysisResult(resp) ELSE FallbackIntentAnalysis(query)

(***************************************************************************)
(* PatternAnalyzer: the Analysis and the stages that build it              *)
(***************************************************************************)
\* dict keys that may be absent are "absent" (error) or FALSE (the two flags);
\* identified_patterns, a list of labels every stage sets and nothing branches on,
\* is left out
MkAnalysis(q, ng, nr, nb, cx, agents, reasoning) ==
    [original_query      |-> q,
     needs_graph         |-> ng,
     needs_relational    |-> nr,
     needs_both          |-> nb,
     complexity          |-> cx,
     suggested_agents    |-> agents,
     llm_reasoning       |-> reasoning,
     analysis_method     |-> "unset",
     confidence          |-> 0,
     emergency_mode      |-> FALSE,
     from_cache          |-> FALSE,
     error               |-> "absent"]

\* an agent list that stops at the first flag that is set
DetermineAgentsFromLlmFirstOnly(a) ==
    IF a.needs_postgresql THEN <<"postgres">>
    ELSE IF a.needs_neo4j THEN <<"neo4j">>
    ELSE <<"neo4j", "postgres">>

\* PatternAnalyzer._determine_agents_from_llm
DetermineAgentsFromLlm(a) ==
    LET agents == (IF a.needs_postgresql THEN <<"postgres">> ELSE <<>>)
                  \o (IF a.needs_neo4j THEN <<"neo4j">> ELSE <<>>)
    IN  IF agents = <<>> THEN <<"neo4j", "postgres">> ELSE agents

\* PatternAnalyzer._analyze_with_llm, given what analyze_query_intent returned
AnalyzeWithLlm(query, a) ==
    MkAnalysis(query, a.needs_neo4j, a.needs_postgresql, a.needs_both, a.complexity,
               DetermineAgentsFromLlm(a), a.reasoning)

\* line 283
complexity_keywords == {"combinar", "comparar", "analizar", "todos", "completo", "integrar"}

\* a decision that looks at the graph and sql counts before the hybrid count
AnalyzeWithFallbackHybridLast(query, g, r, h) ==
    LET cx(c) == IF ContainsAny(Lower(query), complexity_keywords) THEN "complex" ELSE c
    IN  IF g > r THEN
            MkAnalysis(query, TRUE, FALSE, FALSE, cx("simple"), <<"neo4j">>, "absent")
        ELSE IF r > g THEN
            MkAnalysis(query, FALSE, TRUE, FALSE, cx("simple"), <<"postgres">>, "absent")
        ELSE IF h > 0 THEN
            MkAnalysis(query, TRUE, TRUE, TRUE, cx("hybrid"), <<"neo4j", "postgres">>, "absent")
        ELSE
            MkAnalysis(query, TRUE, TRUE, TRUE, cx("exploratory"), <<"neo4j", "postgres">>, "absent")

\* PatternAnalyzer._analyze_with_fallback; g, r, h are the numbers of graph, sql and
\* hybrid patterns that match (the pattern tables themselves are not in the source)
AnalyzeWithFallback(query, g, r, h) ==
    LET cx(c) == IF ContainsAny(Lower(query), complexity_keywords) THEN "complex" ELSE c
    IN  IF h > 0 THEN
            MkAnalysis(query, TRUE, TRUE, TRUE, cx("hybrid"), <<"neo4j", "postgres">>, "absent")
        ELSE IF g > r THEN
            MkAnalysis(query, TRUE, FALSE, FALSE, cx("simple"), <<"neo4j">>, "absent")
        ELSE IF r > g THEN
            MkAnalysis(query, FALSE, TRUE, FALSE, cx("simple"), <<"postgres">>, "absent")
        ELSE
            MkAnalysis(query, TRUE, TRUE, TRUE, cx("exploratory"), <<"neo4j", "postgres">>, "absent")

\* an emergency analysis as conservative as the orchestrator's default: postgres only
EmergencyAnalysisPostgresOnly(query) ==
    [MkAnalysis(query, FALSE, TRUE, FALSE, "simple", <<"postgres">>, "absent")
     EXCEPT !.emergency_mode = TRUE]

\* PatternAnalyzer._emergency_analysis
EmergencyAnalysis(query) ==
    [MkAnalysis(query, TRUE, TRUE, TRUE, "unknown",
                <<"neo4j", "postgres">>, "absent")
     EXCEPT !.emergency_mode = TRUE]

\* the three assignments analyze_query makes to a stage's result
Tagged(a, method, conf) == [a EXCEPT !.analysis_method = method, !.confidence = conf]

NoAnalysis == MkAnalysis(<<>>, FALSE, FALSE, FALSE, "none", <<>>, "absent")
NoRet == [kind |-> "none", n |-> 0, query |-> <<>>, ctx |-> <<>>, val |-> NoAnalysis,
          msg |-> "absent"]

Inc(s, k) == [s EXCEPT ![k] = @ + 1]

\* the callers that may have a call of analyze_query in flight at the same time
Callers == {"a", "b"}
NoStats == <<>>

CacheKeys(c) == {c[i].key : i \in 1..Len(c)}
CacheGet(c, key) == c[CHOOSE i \in 1..Len(c) : c[i].key = key].val

\* the `while len(cache) >= cache_max_size: del cache[next(iter(cache))]` loop
RECURSIVE EvictOldest(_)
EvictOldest(c) == IF Len(c) >= cache_max_size THEN EvictOldest(Tail(c)) ELSE c

\* result.copy() with the transient keys popped
CleanCopy(a) == [a EXCEPT !.error = "absent", !.from_cache = FALSE, !.emergency_mode = FALSE]

\* a dict assignment: an existing key keeps its place, a new key goes last
DictSet(c, key, val) ==
    IF key \in CacheKeys(c)
    THEN [i \in 1..Len(c) |-> IF c[i].key = key THEN [key |-> key, val |-> val] ELSE c[i]]
    ELSE Append(c, [key |-> key, val |-> val])

\* _cache_result that stores without making room
CacheResultNoEvict(c, key, a) == DictSet(c, key, CleanCopy(a))

\* PatternAnalyzer._cache_result
CacheResult(c, key, a) == DictSet(EvictOldest(c), key, CleanCopy(a))

\* a cache hit that also refreshes the entry's position (what an LRU cache would do)
CacheOnHitLRU(c, key) ==
    LET i == CHOOSE j \in 1..Len(c) : c[j].key = key
    IN  SubSeq(c, 1, i - 1) \o SubSeq(c, i + 1, Len(c)) \o <<c[i]>>

\* the cache after a hit on key: analyze_query only reads it
CacheOnHit(c, key) == c

(***************************************************************************)
(* analyze_query: how a call ends                                          *)
(***************************************************************************)
\* the call returns a
Returns(q, ctx, owner, a) ==
    /\ ret' = [kind |-> "ok", n |-> ncalls', query |-> q, ctx |-> ctx, val |-> a,
               msg |-> "absent"]
    /\ cl_pc' = IF owner = "pq" THEN "done" ELSE "idle"

\* the call raises
Raises(q, ctx, owner, msg) ==
    /\ ret' = [kind |-> "raised", n |-> ncalls', query |-> q, ctx |-> ctx, val |-> NoAnalysis,
               msg |-> msg]
    /\ cl_pc' = IF owner = "pq" THEN "done" ELSE "idle"

\* an except branch that stores the emergency result like any other result
EmergencyStored(q, ctx, owner, s, msg, tried) ==
    LET key == GenerateCacheKey(q, ctx)
        a   == [Tagged(EmergencyAnalysis(q), "emergency", 5) EXCEPT !.error = msg]
    IN  /\ stats' = Inc(s, "errors")
        /\ Returns(q, ctx, owner, a)
        /\ stages' = tried \o <<"emergency">>
        /\ analysis_cache' = CacheResult(analysis_cache, key, a)
        /\ evicted' = CacheKeys(analysis_cache) \ CacheKeys(analysis_cache')
        /\ ins_log' = Append(ins_log, key)
        /\ matches' = <<>>

\* lines 170-181: the except branch of analyze_query
Emergency(q, ctx, owner, s, msg, tried) ==
    /\ stats' = Inc(s, "errors")
    /\ Returns(q, ctx, owner,
               [Tagged(EmergencyAnalysis(q), "emergency", 5) EXCEPT !.error = msg])
    /\ stages' = tried \o <<"emergency">>
    /\ UNCHANGED <<analysis_cache, ins_log>>
    /\ evicted' = {}
    /\ matches' = <<>>

\* lines 160-168: store and return
StoreAndReturn(q, ctx, owner, s, a, tried) ==
    LET key == GenerateCacheKey(q, ctx) IN
    /\ stats' = s
    /\ analysis_cache' = CacheResult(analysis_cache, key, a)
    /\ evicted' = CacheKeys(analysis_cache) \ CacheKeys(analysis_cache')
    /\ ins_log' = Append(ins_log, key)
    /\ stages' = tried
    /\ Returns(q, ctx, owner, a)

\* lines 127-158 and on: everything analyze_query does from the counter increment
\* up to its first suspension (the remote call) or its return
Body(q, ctx, owner) ==
    LET s1  == Inc(stats, "total_queries")
        key == GenerateCacheKey(q, ctx)
    IN
    IF key \in CacheKeys(analysis_cache) THEN
        /\ stats' = Inc(s1, "cache_hits")
        /\ analysis_cache' = CacheOnHit(analysis_cache, key)
        /\ Returns(q, ctx, owner,
                   [CacheGet(analysis_cache, key) EXCEPT !.from_cache = TRUE,
                                                         !.analysis_method = "cache"])
        /\ stages' = <<"cache">>
        /\ evicted' = {}
        /\ matches' = <<>>
        /\ UNCHANGED <<ins_log, attempt>>
    ELSE IF llm_available' /\ fallback_only = "unset" THEN
        \* AttributeError raised by the test on line 146
        /\ Emergency(q, ctx, owner, s1, "no attribute fallback_only", <<"cache">>)
        /\ UNCHANGED attempt
    ELSE IF llm_available' /\ fallback_only = "False" THEN
        \* _analyze_with_llm -> analyze_query_intent -> generate_content, first attempt
        /\ stats' = s1
        /\ cl_pc' = "attempt"
        /\ attempt' = 0
        /\ stages' = <<"cache", "remote">>
        /\ evicted' = {}
        /\ matches' = <<>>
        /\ UNCHANGED <<analysis_cache, ins_log, ret>>
    ELSE IF fallback_patterns = "unset" THEN
        \* AttributeError raised on line 234
        /\ Emergency(q, ctx, owner, s1, "no attribute fallback_patterns", <<"cache", "heuristic">>)
        /\ UNCHANGED attempt
    ELSE IF "fallback_queries" \notin DOMAIN stats THEN
        \* KeyError raised on line 158
        /\ Emergency(q, ctx, owner, s1, "KeyError fallback_queries", <<"cache", "heuristic">>)
        /\ UNCHANGED attempt
    ELSE
        /\ \E g, r, h \in 0..MaxMatch :
               /\ matches' = <<g, r, h>>
               /\ StoreAndReturn(q, ctx, owner, Inc(s1, "fallback_queries"),
                                 Tagged(AnalyzeWithFallback(q, g, r, h), "fallback", 7),
                                 <<"cache", "heuristic">>)
        /\ UNCHANGED attempt

\* lines 148-151 then 160-168, once analyze_query_intent has returned intent
LlmReturn(intent, tried) ==
    /\ matches' = <<>>
    /\ StoreAndReturn(cl_query, cl_ctx, cl_owner, Inc(stats, "llm_queries"),
                   Tagged(AnalyzeWithLlm(cl_query, intent), "llm", 9), tried)

\* an analyze_query_intent that lets the error of generate_content through, up to
\* the caller of analyze_query
IntentFailsAndSurfaces(tried) ==
    /\ Raises(cl_query, cl_ctx, cl_owner, "Timeout")
    /\ stages' = tried
    /\ evicted' = {}
    /\ matches' = <<>>
    /\ UNCHANGED <<analysis_cache, stats, ins_log>>

\* gemini_client.py lines 290-294: generate_content raised; analyze_query_intent
\* answers with its keyword analysis and analyze_query goes on as after a success
IntentFails(tried) ==
    LlmReturn(FallbackIntentAnalysis(cl_query), tried \o <<"intent_fallback">>)

(***************************************************************************)
(* State after construction                                                *)
(***************************************************************************)
Agents == {"neo4j", "postgres"}

\* every MCPAgent is a server and a client; the orchestrator is one too
Servers == Agents \cup {"orchestrator"}

neo4j_resources == {"graph_schema", "graph_stats", "nodes_by_label", "relationships_by_type"}
postgres_resources == {"database_schema", "table_statistics", "indexes",
                       "table_relationships", "columns_info"}
orchestrator_resources == {"system_map", "available_capabilities", "combined_statistics",
                           "unified_schema"}
neo4j_tools == {"execute_cypher", "find_nodes", "find_paths", "create_node",
                "create_relationship"}
postgres_tools == {"execute_sql", "search_table", "insert_data", "update_data",
                   "aggregate_data", "export_for_graph", "create_dynamic_table"}
orchestrator_tools == {"smart_query", "hybrid_query", "sync_data", "comparative_analysis",
                       "custom_workflow"}

StatsAsConstructed ==
    [k \in {"total_queries", "llm_queries", "cache_hits", "errors", "avg_confidence"} |-> 0]
StatsWithFallbackKey ==
    [k \in DOMAIN StatsAsConstructed \cup {"fallback_queries"} |-> 0]

\* the object as constructed, and objects with the missing attributes assigned
Configurations ==
    { <<"unset", "unset", StatsAsConstructed>>,
      <<"False", "unset", StatsAsConstructed>>,
      <<"True", "unset", StatsAsConstructed>>,
      <<"True", "set", StatsAsConstructed>>,
      <<"True", "unset", StatsWithFallbackKey>>,
      <<"True", "set", StatsWithFallbackKey>> }

NoMsg == [id |-> <<>>, requester |-> "none", server |-> "none", via |-> "none",
          method |-> "none", has_params |-> FALSE, name |-> "none"]
NoResponse == [result |-> "none", error |-> "none"]
NoOutcome == [kind |-> "none", val |-> "none"]
NoHeader == [id |-> <<>>, type |-> "none", method |-> "none"]
NoShape == [kind |-> "none", op |-> "none", strategy |-> "none", agents_used |-> <<>>,
            results |-> <<>>, merged |-> FALSE, sources |-> <<>>, error |-> "None"]
NoWorkflow == [kind |-> "none", workflow_steps |-> 0, completed_steps |-> 0,
               results |-> <<>>, success |-> FALSE]
NoScore == [called |-> FALSE, stats |-> StatsAsConstructed, num |-> 0, den |-> 1]
NoMerge == [called |-> FALSE, results |-> <<>>, sources |-> <<>>, data |-> <<>>,
            insights |-> <<>>]
NoFallback == [called |-> FALSE, query |-> <<>>, counts |-> <<0, 0, 0>>,
               result |-> NoAnalysis]
NoCoRet == [kind |-> "none", analysis_method |-> "unset"]
NoGenOut == [kind |-> "none", val |-> "none"]
NoDiscovery == [by |-> "none", failed |-> {}, raised |-> FALSE, entries |-> <<>>]

NoTask == [status |-> "none", resource |-> "none", val |-> "None", provider |-> "none"]
NoPayload == [kind |-> "none", query |-> <<>>, data_error |-> "absent",
              results |-> <<>>, data_strategy |-> "none", analysis |-> NoAnalysis,
              strategy |-> "none", agents_used |-> <<>>]

Init ==
    /\ \E c \in Configurations :
           /\ fallback_only = c[1]
           /\ fallback_patterns = c[2]
           /\ stats = c[3]
    /\ pa_initialized = FALSE
    /\ llm_available = FALSE
    /\ gc_initialized = FALSE
    /\ analysis_cache = <<>>
    /\ cl_pc = "idle"
    /\ cl_owner = "direct"
    /\ cl_query = <<>>
    /\ cl_ctx = <<>>
    /\ attempt = 0
    /\ ret = NoRet
    /\ stages = <<>>
    /\ ncalls = 0
    /\ ins_log = <<>>
    /\ evicted = {}
    /\ matches = <<>>
    /\ resources = [a \in Servers |->
                        CASE a = "neo4j" -> neo4j_resources
                          [] a = "postgres" -> postgres_resources
                          [] a = "orchestrator" -> orchestrator_resources]
    /\ tools = [a \in Servers |->
                    CASE a = "neo4j" -> neo4j_tools
                      [] a = "postgres" -> postgres_tools
                      [] a = "orchestrator" -> orchestrator_tools]
    /\ mcp_pc = "idle"
    /\ mcp_msg = NoMsg
    /\ mcp_fn = "none"
    /\ mcp_delivered = <<>>
    /\ mcp_invoked = {}
    /\ mcp_response = NoResponse
    /\ mcp_outcome = NoOutcome
    /\ mcp_header = NoHeader
    /\ discovery = NoDiscovery
    /\ shape_result = NoShape
    /\ gen_pc = "idle"
    /\ gen_attempt = 0
    /\ gen_log = <<>>
    /\ gen_out = NoGenOut
    /\ gen_calls = 0
    /\ co_pc = [c \in Callers |-> "idle"]
    /\ co_query = [c \in Callers |-> <<>>]
    /\ co_attempt = [c \in Callers |-> 0]
    /\ co_seen = [c \in Callers |-> NoStats]
    /\ co_ret = [c \in Callers |-> NoCoRet]
    /\ co_count = [made |-> 0, returned |-> 0, raised |-> 0, peak |-> 0]
    /\ wf_pc = "idle"
    /\ wf_steps = <<>>
    /\ wf_i = 0
    /\ wf_results = <<>>
    /\ wf_failed = <<>>
    /\ wf_out = NoWorkflow
    /\ score = NoScore
    /\ merge_out = NoMerge
    /\ fallback_out = NoFallback
    /\ connected_servers = Agents
    /\ pq_pc = "idle"
    /\ pq_query = <<>>
    /\ pq_ctx = <<>>
    /\ pq_analysis = NoAnalysis
    /\ pq_strategy = "none"
    /\ tasks = [a \in Agents |-> NoTask]
    /\ call_log = <<>>
    /\ payload = NoPayload
    /\ npq = 0

(***************************************************************************)
(* OrchestratorAgent: selector, translators, protocol round trip           *)
(***************************************************************************)
PQQueries == { <<"esquema">>, <<"comparar", Blank, "stats">>, <<"grafo", Blank, "tabla">> }

\* the queries of the end-to-end scenarios: "muéstrame el esquema del grafo" and
\* "compare both databases' statistics"
ScenarioQueries == { <<"esquema">>, <<"compare", Blank, "statistics">> }
PQContexts == { <<>>, <<<<"postgres_data", "old">>, ItemUser>> }
Data == {"d1", "d2"}
ErrMsgs == {"", "boom"}
ProviderOutcomes == [kind : {"data"}, val : Data] \cup [kind : {"raise"}, val : ErrMsgs]

\* remote answers used where the engine, not the classifier, is under study
PQResponses ==
    { resp \in Responses : resp.needs_both \in {"true", "false"} }

\* _analyze_query lines 180-194: the fields the orchestrator copies
AdaptAnalysis(query, a) ==
    [a EXCEPT !.original_query = query, !.emergency_mode = FALSE, !.from_cache = FALSE,
              !.error = "absent"]

\* a substitute that asks both agents, as the classifier's emergency result does
DefaultAnalysisBothAgents(query, msg) ==
    [MkAnalysis(query, TRUE, TRUE, TRUE, "unknown", <<"neo4j", "postgres">>, "absent")
     EXCEPT !.analysis_method = "emergency_default", !.confidence = 5, !.error = msg]

\* _analyze_query lines 205-216: the substitute when analyze_query raised
DefaultAnalysis(query, msg) ==
    [MkAnalysis(query, FALSE, TRUE, FALSE, "simple", <<"postgres">>, "absent")
     EXCEPT !.analysis_method = "emergency_default", !.confidence = 5, !.error = msg]

InSeq(x, sq) == \E i \in 1..Len(sq) : sq[i] = x

\* a selector that sends every two-agent analysis to the sequential shape
DetermineExecutionStrategyAlwaysSequential(a) ==
    IF a.needs_both THEN "sequential"
    ELSE IF Len(a.suggested_agents) = 1 THEN "single_agent"
    ELSE "parallel"

\* OrchestratorAgent._determine_execution_strategy
DetermineExecutionStrategy(a) ==
    IF a.needs_both THEN
        IF a.complexity = "hybrid" THEN "sequential" ELSE "parallel"
    ELSE IF Len(a.suggested_agents) = 1 THEN "single_agent"
    ELSE "parallel"

\* OrchestratorAgent._query_neo4j_natural: the resource it requests
QueryNeo4jNatural(query) ==
    LET ql == Lower(query) IN
    IF ContainsAny(ql, {"esquema", "estructura", "labels"}) THEN "graph_schema"
    ELSE IF ContainsAny(ql, {"estadísticas", "stats", "resumen"}) THEN "graph_stats"
    ELSE IF ContainsAny(ql, {"nodos", "nodes"}) THEN "nodes_by_label"
    ELSE IF ContainsAny(ql, {"relaciones", "relationships"}) THEN "relationships_by_type"
    ELSE "graph_stats"

\* OrchestratorAgent._query_postgres_natural: the resource it requests
QueryPostgresNatural(query) ==
    LET ql == Lower(query) IN
    IF ContainsAny(ql, {"esquema", "estructura", "tablas"}) THEN "database_schema"
    ELSE IF ContainsAny(ql, {"estadísticas", "stats", "resumen"}) THEN "table_statistics"
    ELSE IF ContainsAny(ql, {"columnas", "columns"}) THEN "columns_info"
    ELSE IF ContainsAny(ql, {"relaciones", "foreign keys"}) THEN "table_relationships"
    ELSE "database_schema"

QueryNatural(agent, query) ==
    IF agent = "neo4j" THEN QueryNeo4jNatural(query) ELSE QueryPostgresNatural(query)

\* {**context, key: val}
ItemKeys(c) == {c[i][1] : i \in 1..Len(c)}
WithItem(c, key, val) ==
    IF key \in ItemKeys(c)
    THEN [i \in 1..Len(c) |-> IF c[i][1] = key THEN <<key, val>> ELSE c[i]]
    ELSE Append(c, <<key, val>>)

\* the context an enrichment that forgot the caller's context would pass on
EnhancedContextOnlyData(context, postgres_result) == <<<<"postgres_data", postgres_result>>>>

\* _execute_sequential line 331
EnhancedContext(context, postgres_result) == WithItem(context, "postgres_data", postgres_result)

\* the provider's handle_request for get_resource (neo4j_agent.py 121-181, same in
\* postgres_agent.py): out is what the awaited resource function does
HandleRequest(agent, resource, out) ==
    IF resource \notin resources[agent] THEN [result |-> "None", error |-> "no encontrado"]
    ELSE IF out.kind = "data" THEN [result |-> out.val, error |-> "None"]
    ELSE [result |-> "None", error |-> out.val]

\* MCPClient.request_resource lines 107-112: `if response.error:` is a truth test,
\* so None and the empty string both count as no error
RequestResource(agent, resource, out) ==
    LET response == HandleRequest(agent, resource, out) IN
    IF agent \notin connected_servers THEN
        [status |-> "raised", resource |-> resource, val |-> "No conectado", provider |-> "none"]
    ELSE IF response.error \notin {"None", ""} THEN
        [status |-> "raised", resource |-> resource, val |-> response.error, provider |-> out.kind]
    ELSE
        [status |-> "ok", resource |-> resource, val |-> response.result, provider |-> out.kind]

Running(resource) == [status |-> "running", resource |-> resource, val |-> "None",
                      provider |-> "none"]

\* an entry of the results of a shape: the value returned or {"error": str(exception)}
Entry(agent, t) == [agent |-> agent, kind |-> IF t.status = "raised" THEN "error" ELSE "data",
                    val |-> t.val]

\* _execute_parallel that keeps only the tasks that returned
ParallelResultsOnlySuccessful(ts, used) ==
    LET good == SelectSeq(used, LAMBDA a : ts[a].status # "raised")
    IN  [i \in 1..Len(good) |-> Entry(good[i], ts[good[i]])]

\* _execute_parallel lines 300-306: one entry per task, in the order of agents_used
ParallelResults(ts, used) == [i \in 1..Len(used) |-> Entry(used[i], ts[used[i]])]

\* a sequential shape that goes on to its second step whatever the first did
FirstStepCompletedEvenIfRaised(t) == TRUE

\* _execute_sequential line 325: the await of the first step returns (an exception
\* raised by it leaves _execute_sequential at once)
FirstStepCompleted(t) == t.status = "ok"

(***************************************************************************)
(* analyze_query, one action per segment between suspensions               *)
(***************************************************************************)
\* lines 123-126 and, when no initialisation has to be awaited, the body
Start(q, ctx, owner) ==
    /\ cl_pc = "idle"
    /\ cl_query' = q
    /\ cl_ctx' = ctx
    /\ cl_owner' = owner
    /\ ncalls' = ncalls + 1
    /\ UNCHANGED <<fallback_only, fallback_patterns>>
    /\ IF pa_initialized THEN
           /\ UNCHANGED <<pa_initialized, llm_available, gc_initialized>>
           /\ Body(q, ctx, owner)
       ELSE IF gc_initialized THEN
           \* GeminiClient.initialize returns at once
           /\ llm_available' = TRUE
           /\ pa_initialized' = TRUE
           /\ UNCHANGED gc_initialized
           /\ Body(q, ctx, owner)
       ELSE
           \* suspended in asyncio.to_thread(vertexai.init)
           /\ cl_pc' = "init"
           /\ stages' = <<>>
           /\ evicted' = {}
           /\ matches' = <<>>
           /\ UNCHANGED <<pa_initialized, llm_available, gc_initialized, analysis_cache,
                          stats, attempt, ret, ins_log>>

\* a direct call of PatternAnalyzer.analyze_query(query, context)
AnalyzeQuery(q, ctx, bound) ==
    /\ pq_pc = "idle"
    /\ ncalls < bound
    /\ Start(q, ctx, "direct")
    /\ UNCHANGED pqvars
    /\ UNCHANGED mcpvars
    /\ UNCHANGED shvars
    /\ UNCHANGED wfvars
    /\ UNCHANGED fnvars

\* GeminiClient.initialize succeeds: lines 116-129, then PatternAnalyzer 86-95 and the body
InitSucceeds ==
    /\ cl_pc = "init"
    /\ gc_initialized' = TRUE
    /\ llm_available' = TRUE
    /\ pa_initialized' = TRUE
    /\ UNCHANGED <<fallback_only, fallback_patterns, cl_owner, cl_query, cl_ctx, ncalls>>
    /\ UNCHANGED pqvars
    /\ UNCHANGED mcpvars
    /\ UNCHANGED shvars
    /\ UNCHANGED wfvars
    /\ UNCHANGED fnvars
    /\ Body(cl_query, cl_ctx, cl_owner)

\* GeminiClient.initialize raises: lines 131-138, then PatternAnalyzer 89-92
InitFails ==
    /\ cl_pc = "init"
    /\ llm_available' = FALSE
    /\ UNCHANGED <<fallback_only, fallback_patterns, pa_initialized, gc_initialized,
                   analysis_cache, stats, cl_owner, cl_query, cl_ctx, attempt, stages,
                   ncalls, ins_log, evicted, matches>>
    /\ UNCHANGED pqvars
    /\ UNCHANGED mcpvars
    /\ UNCHANGED shvars
    /\ UNCHANGED wfvars
    /\ UNCHANGED fnvars
    /\ Raises(cl_query, cl_ctx, cl_owner, "No se pudo inicializar el analizador IA")

AttemptFrame ==
    /\ UNCHANGED <<fallback_only, fallback_patterns, pa_initialized, llm_available,
                   gc_initialized, cl_owner, cl_query, cl_ctx, ncalls>>
    /\ UNCHANGED pqvars
    /\ UNCHANGED mcpvars
    /\ UNCHANGED shvars
    /\ UNCHANGED wfvars
    /\ UNCHANGED fnvars

\* generate_content lines 207-221: the attempt returns a non-empty text
AttemptReturnsText(resp) ==
    /\ cl_pc = "attempt"
    /\ AttemptFrame
    /\ LlmReturn(IntentFromResponse(cl_query, resp),
                 IF ParseOk(resp) THEN stages ELSE stages \o <<"intent_fallback">>)
    /\ UNCHANGED attempt

\* a retry loop that allows one attempt more before it gives up
AfterFailureOneMore(how, att) ==
    IF att = max_retries THEN "raise"
    ELSE IF how = "timeout" THEN "retry"
    ELSE "sleep"

\* generate_content lines 223-241, what follows a failed attempt: the exception
\* leaves the call ("raise"), the loop goes straight on ("retry": the timeout branch
\* has no sleep) or the call sleeps first ("sleep")
AfterFailure(how, att) ==
    IF att = max_retries - 1 THEN "raise"
    ELSE IF how = "timeout" THEN "retry"
    ELSE "sleep"

\* line 239
Delay(att) == base_delay * 2 ^ att

\* generate_content lines 223-241: the attempt times out ("timeout") or fails
\* otherwise ("error", which covers the empty response of line 216)
AttemptFails(how) ==
    /\ cl_pc = "attempt"
    /\ AttemptFrame
    /\ IF AfterFailure(how, attempt) = "raise" THEN
           \* the error leaves generate_content; analyze_query_intent line 290-294
           /\ IntentFails(stages \o <<"gave_up">>)
           /\ UNCHANGED attempt
       ELSE IF AfterFailure(how, attempt) = "retry" THEN
           /\ attempt' = attempt + 1
           /\ UNCHANGED <<cl_pc, analysis_cache, stats, ret, stages, ins_log, evicted, matches>>
       ELSE
           /\ cl_pc' = "sleep"
           /\ UNCHANGED <<attempt, analysis_cache, stats, ret, stages, ins_log, evicted, matches>>

\* asyncio.sleep(delay) of line 241 is over
SleepDone ==
    /\ cl_pc = "sleep"
    /\ cl_pc' = "attempt"
    /\ attempt' = attempt + 1
    /\ UNCHANGED <<analysis_cache, stats, ret, stages, ins_log, evicted, matches>>
    /\ AttemptFrame

\* PatternAnalyzer.clear_cache
ClearCache ==
    /\ cl_pc = "idle" /\ pq_pc = "idle"
    /\ analysis_cache # <<>>
    /\ analysis_cache' = <<>>
    /\ ins_log' = <<>>
    /\ evicted' = {}
    /\ matches' = <<>>
    /\ ret' = NoRet
    /\ UNCHANGED <<fallback_only, fallback_patterns, pa_initialized, llm_available,
                   gc_initialized, stats, cl_pc, cl_owner, cl_query, cl_ctx, attempt,
                   stages, ncalls>>
    /\ UNCHANGED pqvars
    /\ UNCHANGED mcpvars
    /\ UNCHANGED shvars
    /\ UNCHANGED wfvars
    /\ UNCHANGED fnvars

\* PatternAnalyzer.close (with GeminiClient.close)
Close ==
    /\ cl_pc = "idle" /\ pq_pc = "idle"
    /\ pa_initialized
    /\ gc_initialized' = FALSE
    /\ analysis_cache' = <<>>
    /\ pa_initialized' = FALSE
    /\ llm_available' = FALSE
    /\ ins_log' = <<>>
    /\ evicted' = {}
    /\ matches' = <<>>
    /\ ret' = NoRet
    /\ UNCHANGED <<fallback_only, fallback_patterns, stats, cl_pc, cl_owner, cl_query,
                   cl_ctx, attempt, stages, ncalls>>
    /\ UNCHANGED pqvars
    /\ UNCHANGED mcpvars
    /\ UNCHANGED shvars
    /\ UNCHANGED wfvars
    /\ UNCHANGED fnvars

(***************************************************************************)
(* process_query, one action per segment between suspensions               *)
(***************************************************************************)
\* lines 144-153: the normal payload
OkPayload(results, shape, agents_used) ==
    [kind |-> "ok", query |-> pq_query, data_error |-> "absent", results |-> results,
     data_strategy |-> shape, analysis |-> pq_analysis', strategy |-> pq_strategy',
     agents_used |-> agents_used]

\* an error payload that forgets which query failed
ErrorPayloadWithoutQuery(msg) ==
    [kind |-> "error", query |-> <<>>, data_error |-> msg, results |-> <<>>,
     data_strategy |-> "none", analysis |-> NoAnalysis, strategy |-> "none",
     agents_used |-> <<>>]

\* lines 155-164: the error payload, msg is str(e)
ErrorPayload(msg) ==
    [kind |-> "error", query |-> pq_query, data_error |-> msg, results |-> <<>>,
     data_strategy |-> "none", analysis |-> NoAnalysis, strategy |-> "none",
     agents_used |-> <<>>]

LogCall(agent, query, ctx) == [agent |-> agent, resource |-> QueryNatural(agent, query),
                               ctx |-> ctx]

\* line 124-136: entry, up to the first suspension inside analyze_query (called
\* without a context) or to its return
ProcessQuery(q, ctx) ==
    /\ pq_pc = "idle"
    /\ npq < MaxPQ
    /\ npq' = npq + 1
    /\ pq_pc' = "analyze"
    /\ pq_query' = q
    /\ pq_ctx' = ctx
    /\ pq_analysis' = NoAnalysis
    /\ pq_strategy' = "none"
    /\ tasks' = [a \in Agents |-> NoTask]
    /\ call_log' = <<>>
    /\ payload' = NoPayload
    /\ UNCHANGED <<resources, connected_servers>>
    /\ UNCHANGED mcpvars
    /\ UNCHANGED shvars
    /\ UNCHANGED wfvars
    /\ UNCHANGED fnvars
    /\ Start(q, <<>>, "pq")

\* a sequential shape that runs as soon as one agent is suggested
SequentialRunsWithAnyAgent(agents) == agents # <<>>

\* _execute_sequential line 323: the test that guards both steps
SequentialRuns(agents) == InSeq("postgres", agents) /\ InSeq("neo4j", agents)

\* lines 136-142: analyze_query is back; adapt or substitute the analysis, pick the
\* strategy and run the shape up to its first provider round trip
Dispatch ==
    /\ pq_pc = "analyze"
    /\ cl_pc = "done"
    /\ cl_pc' = "idle"
    /\ UNCHANGED <<fallback_only, fallback_patterns, pa_initialized, llm_available,
                   gc_initialized, analysis_cache, stats, cl_owner, cl_query, cl_ctx,
                   attempt, ret, stages, ncalls, ins_log, evicted, matches>>
    /\ UNCHANGED <<resources, connected_servers, pq_query, pq_ctx, npq>>
    /\ UNCHANGED mcpvars
    /\ UNCHANGED shvars
    /\ UNCHANGED wfvars
    /\ UNCHANGED fnvars
    /\ pq_analysis' = IF ret.kind = "ok" THEN AdaptAnalysis(pq_query, ret.val)
                                         ELSE DefaultAnalysis(pq_query, ret.msg)
    /\ pq_strategy' = DetermineExecutionStrategy(pq_analysis')
    /\ LET agents == pq_analysis'.suggested_agents
           par    == SelectSeq(<<"neo4j", "postgres">>, LAMBDA a : InSeq(a, agents))
       IN
       CASE pq_strategy' = "single_agent" ->
                \* _execute_single_agent lines 266-273
                LET agent == IF agents[1] = "neo4j" THEN "neo4j" ELSE "postgres" IN
                /\ tasks' = [tasks EXCEPT ![agent] = Running(QueryNatural(agent, pq_query))]
                /\ call_log' = <<LogCall(agent, pq_query, pq_ctx)>>
                /\ pq_pc' = "single"
                /\ UNCHANGED payload
         [] pq_strategy' = "parallel" /\ par # <<>> ->
                \* _execute_parallel lines 285-297: every task runs to its round trip
                /\ tasks' = [a \in Agents |->
                                IF InSeq(a, par) THEN Running(QueryNatural(a, pq_query))
                                                 ELSE tasks[a]]
                /\ call_log' = [i \in 1..Len(par) |-> LogCall(par[i], pq_query, pq_ctx)]
                /\ pq_pc' = "par"
                /\ UNCHANGED payload
         [] pq_strategy' = "parallel" /\ par = <<>> ->
                /\ payload' = OkPayload(<<>>, "parallel", <<>>)
                /\ pq_pc' = "idle"
                /\ UNCHANGED <<tasks, call_log>>
         [] pq_strategy' = "sequential" /\ SequentialRuns(agents) ->
                \* _execute_sequential lines 324-326
                /\ tasks' = [tasks EXCEPT !["postgres"] =
                                             Running(QueryNatural("postgres", pq_query))]
                /\ call_log' = <<LogCall("postgres", pq_query, pq_ctx)>>
                /\ pq_pc' = "seq1"
                /\ UNCHANGED payload
         [] pq_strategy' = "sequential" /\ ~SequentialRuns(agents) ->
                \* lines 336-340 with both lists empty
                /\ payload' = OkPayload(<<>>, "sequential", <<>>)
                /\ pq_pc' = "idle"
                /\ UNCHANGED <<tasks, call_log>>
         [] OTHER ->
                \* _execute_hybrid is never selected; an unknown tag raises (line 255)
                /\ payload' = ErrorPayload("Estrategia desconocida")
                /\ pq_pc' = "idle"
                /\ UNCHANGED <<tasks, call_log>>

\* a provider round trip ends: the resource function returned data or raised;
\* request_resource returns or raises, and the shape goes on to its next suspension
\* asyncio.gather that raises as soon as one task has raised
JoinDoneOnFirstFailure(ts) ==
    \/ \E a \in Agents : ts[a].status = "raised"
    \/ ~\E a \in Agents : ts[a].status = "running"

\* a join that waits for a result from every task it started, and so never ends once
\* one of them has raised
JoinDoneWhenAllSucceeded(ts) ==
    ~\E a \in Agents : ts[a].status \in {"running", "raised"}

\* _execute_parallel line 297: asyncio.gather(*tasks, return_exceptions=True) is done
\* when every task has returned or raised
JoinDone(ts) == ~\E a \in Agents : ts[a].status = "running"

\* the agents whose task a shape created, in the order of lines 288-294
Used(ts) == SelectSeq(<<"neo4j", "postgres">>, LAMBDA a : ts[a].status # "none")

\* lines 414-415: isinstance(value, dict) and "<field>" in value. An entry whose value
\* is described carries its kind and the keys it has; the values the engine passes on
\* from the agents are opaque and are taken not to carry the summary fields
CarriesField(e, f) ==
    /\ "fields" \in DOMAIN e
    /\ e.kind = "mapping"
    /\ f \in e.fields

\* a merger that goes without the isinstance / key tests of lines 414-415
InsightsWheneverBothPresent(results) ==
    IF /\ \E i \in 1..Len(results) : results[i].agent = "neo4j"
       /\ \E i \in 1..Len(results) : results[i].agent = "postgres"
    THEN <<"Sistema híbrido">>
    ELSE <<>>

\* lines 409-421: one insight, when both agents are keys of results and their values
\* are mappings with total_nodes and total_tables
Insights(results) ==
    IF /\ \E i \in 1..Len(results) :
              results[i].agent = "neo4j" /\ CarriesField(results[i], "total_nodes")
       /\ \E i \in 1..Len(results) :
              results[i].agent = "postgres" /\ CarriesField(results[i], "total_tables")
    THEN <<"Sistema híbrido">>
    ELSE <<>>

\* _intelligent_merge lines 399-423: sources are the keys of results, data is results
IntelligentMerge(results) ==
    [sources |-> [i \in 1..Len(results) |-> results[i].agent], data |-> results,
     insights |-> Insights(results)]

\* what _execute_strategy(strategy in parallel, hybrid) returns: _execute_parallel
\* lines 308-312, or _execute_hybrid lines 347-360 which merges what parallel returned
ShapeReturn(strategy, results, used) ==
    [kind |-> "returned", op |-> "execute_strategy", strategy |-> strategy,
     agents_used |-> used,
     results |-> IF strategy = "hybrid" THEN IntelligentMerge(results).data ELSE results,
     merged |-> strategy = "hybrid",
     sources |-> IF strategy = "hybrid" THEN IntelligentMerge(results).sources ELSE <<>>,
     error |-> "None"]

Pending(op, strategy) == [NoShape EXCEPT !.kind = "pending", !.op = op, !.strategy = strategy]

ProviderReturns(agent, out) ==
    /\ pq_pc \in {"single", "par", "seq1", "seq2", "xjoin", "xseq1", "xseq2"}
    /\ tasks[agent].status = "running"
    /\ UNCHANGED clvars
    /\ UNCHANGED mcpvars
    /\ UNCHANGED wfvars
    /\ UNCHANGED fnvars
    /\ IF pq_pc \in {"xjoin", "xseq1", "xseq2"} THEN TRUE ELSE UNCHANGED shvars
    /\ UNCHANGED <<resources, connected_servers, pq_query, pq_ctx, pq_analysis,
                   pq_strategy, npq>>
    /\ LET t  == RequestResource(agent, tasks[agent].resource, out)
           ts == [tasks EXCEPT ![agent] = t]
       IN
       CASE pq_pc = "single" ->
                /\ tasks' = ts
                /\ payload' = IF t.status = "raised" THEN ErrorPayload(t.val)
                              ELSE OkPayload(<<Entry(agent, t)>>, "single_agent", <<agent>>)
                /\ pq_pc' = "idle"
                /\ UNCHANGED call_log
         [] pq_pc = "par" ->
                \* asyncio.gather(return_exceptions=True), then lines 300-312
                LET used == Used(ts)
                IN
                /\ tasks' = ts
                /\ UNCHANGED call_log
                /\ IF ~JoinDone(ts)
                   THEN UNCHANGED <<payload, pq_pc>>
                   ELSE /\ payload' = OkPayload(ParallelResults(ts, used), "parallel", used)
                        /\ pq_pc' = "idle"
         [] pq_pc = "xjoin" ->
                \* the same join, _execute_strategy called directly (lines 248-253)
                /\ tasks' = ts
                /\ UNCHANGED <<call_log, payload>>
                /\ IF ~JoinDone(ts)
                   THEN UNCHANGED <<shape_result, pq_pc>>
                   ELSE /\ shape_result' = ShapeReturn(shape_result.strategy,
                                                       ParallelResults(ts, Used(ts)), Used(ts))
                        /\ pq_pc' = "idle"
         [] pq_pc = "seq1" ->
                IF ~FirstStepCompleted(t) THEN
                    /\ tasks' = ts
                    /\ payload' = ErrorPayload(t.val)
                    /\ pq_pc' = "idle"
                    /\ UNCHANGED call_log
                ELSE
                    \* lines 327-332
                    /\ tasks' = [ts EXCEPT !["neo4j"] =
                                              Running(QueryNatural("neo4j", pq_query))]
                    /\ call_log' = Append(call_log,
                                          LogCall("neo4j", pq_query,
                                                  EnhancedContext(pq_ctx, t.val)))
                    /\ pq_pc' = "seq2"
                    /\ UNCHANGED payload
         [] pq_pc = "seq2" ->
                /\ tasks' = ts
                /\ payload' = IF t.status = "raised" THEN ErrorPayload(t.val)
                              ELSE OkPayload(<<Entry("postgres", ts["postgres"]),
                                               Entry("neo4j", t)>>,
                                             "sequential", <<"postgres", "neo4j">>)
                /\ pq_pc' = "idle"
                /\ UNCHANGED call_log
         [] pq_pc = "xseq1" ->
                \* the same first step, _execute_strategy called directly
                IF ~FirstStepCompleted(t) THEN
                    /\ tasks' = ts
                    /\ shape_result' = [shape_result EXCEPT !.kind = "raised", !.error = t.val]
                    /\ pq_pc' = "idle"
                    /\ UNCHANGED <<call_log, payload>>
                ELSE
                    /\ tasks' = [ts EXCEPT !["neo4j"] =
                                              Running(QueryNatural("neo4j", pq_query))]
                    /\ call_log' = Append(call_log,
                                          LogCall("neo4j", pq_query,
                                                  EnhancedContext(pq_ctx, t.val)))
                    /\ pq_pc' = "xseq2"
                    /\ UNCHANGED <<shape_result, payload>>
         [] pq_pc = "xseq2" ->
                /\ tasks' = ts
                /\ shape_result' =
                       IF t.status = "raised"
                       THEN [shape_result EXCEPT !.kind = "raised", !.error = t.val]
                       ELSE ShapeReturn("sequential",
                                        <<Entry("postgres", ts["postgres"]), Entry("neo4j", t)>>,
                                        <<"postgres", "neo4j">>)
                /\ pq_pc' = "idle"
                /\ UNCHANGED <<call_log, payload>>

NextPQ ==
    \/ \E q \in PQQueries, ctx \in PQContexts : ProcessQuery(q, ctx)
    \/ InitSucceeds
    \/ InitFails
    \/ \E resp \in PQResponses : AttemptReturnsText(resp)
    \/ \E how \in {"timeout", "error"} : AttemptFails(how)
    \/ SleepDone
    \/ Dispatch
    \/ \E agent \in Agents, out \in ProviderOutcomes : ProviderReturns(agent, out)

SpecPQ == Init /\ [][NextPQ]_vars

\* remote answers and provider outcomes that lead to each of the three shapes, with
\* success and failure
LiveResponses ==
    { resp \in PQResponses : /\ resp.kind = "object"
                             /\ resp.has_reasoning
                             /\ resp.needs_postgresql = "true"
                             /\ resp.needs_neo4j = "false" }
LiveOutcomes == { out \in ProviderOutcomes : out.val \in {"d1", "boom"} }

NextPQLive ==
    \/ \E q \in PQQueries, ctx \in PQContexts : ProcessQuery(q, ctx)
    \/ InitSucceeds
    \/ InitFails
    \/ \E resp \in LiveResponses : AttemptReturnsText(resp)
    \/ \E how \in {"timeout", "error"} : AttemptFails(how)
    \/ SleepDone
    \/ Dispatch
    \/ \E agent \in Agents, out \in LiveOutcomes : ProviderReturns(agent, out)

\* process_query when whatever it waits for settles: the thread running vertexai.init
\* ends, every remote attempt returns, fails or times out, every sleep is over,
\* every provider round trip returns or raises, and the event loop resumes the
\* coroutine that is ready to go on
SpecPQLive ==
    /\ Init
    /\ [][NextPQLive]_vars
    /\ WF_vars(InitSucceeds \/ InitFails)
    /\ WF_vars(\/ \E resp \in LiveResponses : AttemptReturnsText(resp)
               \/ \E how \in {"timeout", "error"} : AttemptFails(how))
    /\ WF_vars(SleepDone)
    /\ WF_vars(Dispatch)
    /\ WF_vars(\E agent \in Agents, out \in LiveOutcomes : ProviderReturns(agent, out))

\* process_query on the queries of the end-to-end scenarios
NextScenario ==
    \/ \E q \in ScenarioQueries : ProcessQuery(q, <<>>)
    \/ InitSucceeds
    \/ InitFails
    \/ \E resp \in PQResponses : AttemptReturnsText(resp)
    \/ \E how \in {"timeout", "error"} : AttemptFails(how)
    \/ SleepDone
    \/ Dispatch
    \/ \E agent \in Agents, out \in ProviderOutcomes : ProviderReturns(agent, out)

SpecScenario == Init /\ [][NextScenario]_vars

Next ==
    \/ \E c \in Calls : AnalyzeQuery(c[1], c[2], MaxCalls)
    \/ InitSucceeds
    \/ InitFails
    \/ \E resp \in Responses : AttemptReturnsText(resp)
    \/ \E how \in {"timeout", "error"} : AttemptFails(how)
    \/ SleepDone
    \/ ClearCache
    \/ Close

Spec == Init /\ [][Next]_vars

\* the classifier driven with few distinct answers and many calls, to fill the cache
NextCache ==
    \/ \E q \in CacheQueries : AnalyzeQuery(q, <<>>, MaxCacheCalls)
    \/ InitSucceeds
    \/ InitFails
    \/ \E resp \in CacheResponses : AttemptReturnsText(resp)
    \/ \E how \in {"timeout", "error"} : AttemptFails(how)
    \/ SleepDone
    \/ ClearCache
    \/ Close

SpecCache == Init /\ [][NextCache]_vars

(***************************************************************************)
(* The capability protocol: handle_request of a provider, and               *)
(* request_resource / execute_tool / discover_servers of a requester        *)
(***************************************************************************)
\* names a requester may pass as server_name; no agent of the system is called "mongo"
ServerNames == Agents \cup {"mongo"}
Methods == {"get_resource", "execute_tool", "list_tools"}
\* ids a direct caller of handle_request gives its messages
MessageIds == {<<"m1">>, <<"m2">>}
MCPNames == {"graph_stats", "execute_cypher", "execute_sql", "hybrid_query", "nope"}

\* a client whose connections are those of the orchestrator, whoever it is
ConnectedServersShared(requester) == connected_servers

\* MCPClient.__init__ line 85: each client has its own connected_servers; only the
\* orchestrator is ever connected (OrchestratorAgent.initialize lines 41-42)
ConnectedServers(requester) == IF requester = "orchestrator" THEN connected_servers ELSE {}

\* handle_request: `in self.resources` for get_resource, `in self.tools` for execute_tool
Registered(server, method, name) ==
    IF method = "get_resource" THEN name \in resources[server] ELSE name \in tools[server]

\* a registry that inserts the name it is asked for when the name is missing
LookupInserting(registry, server, name) == [registry EXCEPT ![server] = @ \cup {name}]

\* handle_request tests `name in self.resources` / `name in self.tools` and reads
\* `self.resources[name]` / `self.tools[name]["function"]`: the registries are plain
\* dicts (base.py 36-37), a lookup leaves them as they were
Lookup(registry, server, name) == registry

\* a failure reported as if it were the value asked for
ErrorResponseAsResult(msg) == [result |-> msg, error |-> "None"]

\* handle_request's responses: MCPMessage(..., error=...) leaves result None, and
\* MCPMessage(..., result=...) leaves error None
ErrorResponse(msg) == [result |-> "None", error |-> msg]
ResultResponse(val) == [result |-> val, error |-> "None"]

\* request_resource lines 109-112 / execute_tool lines 131-134: `if response.error:`
\* is a truth test, None and "" both pass it
ClientOutcome(response) ==
    IF response.error \notin {"None", ""} THEN [kind |-> "RemoteError", val |-> response.error]
    ELSE [kind |-> "returned", val |-> response.result]

\* what the caller of handle_request gets: a direct caller the response only, a
\* requester the outcome of request_resource / execute_tool
OutcomeFor(msg, response) ==
    IF msg.via = "handle_request" THEN NoOutcome ELSE ClientOutcome(response)

\* a response that keeps the type of the message it answers
ResponseHeaderOfRequest(msg) == [id |-> msg.id, type |-> "request", method |-> msg.method]

\* handle_request: every MCPMessage it returns is built with id=message.id,
\* type=MCPMessageType.RESPONSE, method=message.method
ResponseHeader(msg) == [id |-> msg.id, type |-> "response", method |-> msg.method]

\* handle_request from its entry to the await of the resource/tool function, or to
\* the response when it does not get there
Receive(msg) ==
    /\ mcp_msg' = msg
    /\ resources' = IF msg.method = "get_resource" /\ msg.has_params
                     THEN Lookup(resources, msg.server, msg.name) ELSE resources
    /\ tools' = IF msg.method = "execute_tool" /\ msg.has_params
                 THEN Lookup(tools, msg.server, msg.name) ELSE tools
    /\ mcp_delivered' = <<[server |-> msg.server, method |-> msg.method, name |-> msg.name]>>
    /\ mcp_fn' = "none"
    /\ IF msg.method \notin {"get_resource", "execute_tool"} THEN
           /\ mcp_response' = ErrorResponse("no soportado")
           /\ mcp_invoked' = {}
           /\ mcp_pc' = "idle"
           /\ mcp_outcome' = OutcomeFor(msg, mcp_response')
           /\ mcp_header' = ResponseHeader(msg)
       ELSE IF ~msg.has_params THEN
           /\ mcp_response' = ErrorResponse("NoneType has no attribute get")
           /\ mcp_invoked' = {}
           /\ mcp_pc' = "idle"
           /\ mcp_outcome' = OutcomeFor(msg, mcp_response')
           /\ mcp_header' = ResponseHeader(msg)
       ELSE IF ~Registered(msg.server, msg.method, msg.name) THEN
           /\ mcp_response' = ErrorResponse("no encontrado")
           /\ mcp_invoked' = {}
           /\ mcp_pc' = "idle"
           /\ mcp_outcome' = OutcomeFor(msg, mcp_response')
           /\ mcp_header' = ResponseHeader(msg)
       ELSE
           /\ mcp_response' = NoResponse
           /\ mcp_invoked' = {<<msg.server, msg.name>>}
           /\ mcp_pc' = "handling"
           /\ mcp_outcome' = NoOutcome
           /\ mcp_header' = NoHeader

Quiet == cl_pc \in {"idle", "done"} /\ pq_pc = "idle" /\ mcp_pc = "idle" /\ wf_pc = "idle"

\* someone hands a message to a provider's handle_request
HandleRequestCall(id, server, method, has_params, name) ==
    /\ Quiet
    /\ UNCHANGED <<clvars, pqrun, discovery, shvars, wfvars, fnvars>>
    /\ Receive([id |-> id, requester |-> "none", server |-> server, via |-> "handle_request",
                method |-> method, has_params |-> has_params, name |-> name])

\* request_resource line 101 / execute_tool line 123: the id is made of the
\* requester's name, the name asked for and the clock
ClientMessageId(requester, name) == <<requester, name, "t">>

\* MCPClient.request_resource / execute_tool up to the provider's first await
ClientCall(requester, server, via, name) ==
    LET msg == [id |-> ClientMessageId(requester, name), requester |-> requester,
                server |-> server, via |-> via,
                method |-> IF via = "request_resource" THEN "get_resource"
                                                       ELSE "execute_tool",
                has_params |-> TRUE, name |-> name]
    IN  /\ Quiet
        /\ UNCHANGED <<clvars, pqrun, discovery, shvars, wfvars, fnvars>>
        /\ IF server \notin ConnectedServers(requester) THEN
               /\ mcp_msg' = msg
               /\ mcp_outcome' = [kind |-> "NotConnected", val |-> server]
               /\ mcp_header' = NoHeader
               /\ UNCHANGED <<resources, tools>>
               /\ mcp_delivered' = <<>>
               /\ mcp_invoked' = {}
               /\ mcp_response' = NoResponse
               /\ mcp_fn' = "none"
               /\ mcp_pc' = "idle"
           ELSE Receive(msg)

\* the awaited resource/tool function returns or raises, and handle_request answers
FunctionEnds(out) ==
    /\ mcp_pc = "handling"
    /\ mcp_pc' = "idle"
    /\ mcp_fn' = out.kind
    /\ mcp_response' = IF out.kind = "data" THEN ResultResponse(out.val)
                                            ELSE ErrorResponse(out.val)
    /\ mcp_outcome' = OutcomeFor(mcp_msg, mcp_response')
    /\ mcp_header' = ResponseHeader(mcp_msg)
    /\ UNCHANGED <<clvars, pqvars, tools, mcp_msg, mcp_delivered, mcp_invoked, discovery,
                   shvars, wfvars, fnvars>>

\* the order in which the orchestrator was connected (orchestrator.py 41-42): dicts
\* iterate in insertion order
ConnectionOrder == <<"neo4j", "postgres">>

Connections(requester) ==
    SelectSeq(ConnectionOrder, LAMBDA srv : srv \in ConnectedServers(requester))

\* MCPServer.get_resources / get_tools (lines 63-75) as put together by lines 142-147,
\* or the {"error": str(e)} of line 150
DiscoveryEntry(srv, failed, msg) ==
    IF srv \in failed
    THEN [server |-> srv, kind |-> "error", resources |-> {}, tools |-> {}, error |-> msg]
    ELSE [server |-> srv, kind |-> "listing", resources |-> resources[srv],
          tools |-> tools[srv], error |-> "None"]

\* a discovery that gives up, raising, at the first provider it cannot enumerate
DiscoverAbortsOnFailure(requester, failed, msg) ==
    LET order == Connections(requester)
        first == IF \E i \in 1..Len(order) : order[i] \in failed
                 THEN CHOOSE i \in 1..Len(order) :
                          /\ order[i] \in failed
                          /\ \A j \in 1..(i-1) : order[j] \notin failed
                 ELSE Len(order) + 1
    IN  [by |-> requester, failed |-> failed, raised |-> first <= Len(order),
         entries |-> [i \in 1..(first - 1) |-> DiscoveryEntry(order[i], failed, msg)]]

\* MCPClient.discover_servers lines 136-152: the try/except is inside the loop
Discover(requester, failed, msg) ==
    LET order == Connections(requester)
    IN  [by |-> requester, failed |-> failed, raised |-> FALSE,
         entries |-> [i \in 1..Len(order) |-> DiscoveryEntry(order[i], failed, msg)]]

\* discover_servers; failed are the connected providers whose get_resources or
\* get_tools raises, msg the message of that exception
DiscoverServers(requester, failed, msg) ==
    /\ Quiet
    /\ failed \subseteq ConnectedServers(requester)
    /\ discovery' = Discover(requester, failed, msg)
    /\ UNCHANGED <<clvars, pqvars, tools, mcp_pc, mcp_msg, mcp_fn, mcp_delivered,
                   mcp_invoked, mcp_response, mcp_outcome, mcp_header, shvars, wfvars,
                   fnvars>>

NextMCP ==
    \/ \E requester \in Servers, failed \in SUBSET Agents, msg \in ErrMsgs :
           DiscoverServers(requester, failed, msg)
    \/ \E server \in Servers, method \in Methods, has_params \in BOOLEAN, name \in MCPNames :
           HandleRequestCall(<<"m1">>, server, method, has_params, name)
    \/ \E requester \in Servers, server \in ServerNames,
          via \in {"request_resource", "execute_tool"}, name \in MCPNames :
           ClientCall(requester, server, via, name)
    \/ \E out \in ProviderOutcomes : FunctionEnds(out)

SpecMCP == Init /\ [][NextMCP]_vars

\* handle_request alone: messages with different ids handed to it directly, and the
\* messages request_resource / execute_tool build
NextHandle ==
    \/ \E id \in MessageIds, server \in Servers, method \in Methods,
          has_params \in BOOLEAN, name \in MCPNames :
           HandleRequestCall(id, server, method, has_params, name)
    \/ \E server \in Agents, via \in {"request_resource", "execute_tool"},
          name \in MCPNames :
           ClientCall("orchestrator", server, via, name)
    \/ \E out \in ProviderOutcomes : FunctionEnds(out)

SpecHandle == Init /\ [][NextHandle]_vars

(***************************************************************************)
(* Protocol exchanges and process_query on one set of agents               *)
(***************************************************************************)
ExchangeResponses ==
    { resp \in Responses : /\ resp.kind = "object"
                           /\ resp.needs_postgresql = "true"
                           /\ resp.needs_neo4j = "false"
                           /\ resp.needs_both \in {"true", "false"}
                           /\ resp.complexity = "simple"
                           /\ ~resp.has_reasoning }
ExchangeOutcomes == { out \in ProviderOutcomes : out.val \in {"d1", "boom"} }

\* the five operations that exchange messages, each on a few inputs: a found and a
\* missing name, a connected and an unknown provider, a call that returns and one
\* that raises
NextExchange ==
    \/ ProcessQuery(<<"esquema">>, <<>>)
    \/ InitSucceeds
    \/ InitFails
    \/ \E resp \in ExchangeResponses : AttemptReturnsText(resp)
    \/ \E how \in {"timeout", "error"} : AttemptFails(how)
    \/ SleepDone
    \/ Dispatch
    \/ \E agent \in Agents, out \in ExchangeOutcomes : ProviderReturns(agent, out)
    \/ \E failed \in SUBSET Agents : DiscoverServers("orchestrator", failed, "boom")
    \/ \E server \in Servers, method \in {"get_resource", "execute_tool"},
          name \in {"graph_stats", "nope"} :
           HandleRequestCall(<<"m1">>, server, method, TRUE, name)
    \/ \E server \in {"neo4j", "mongo"}, via \in {"request_resource", "execute_tool"},
          name \in {"execute_cypher", "nope"} :
           ClientCall("orchestrator", server, via, name)
    \/ \E out \in ExchangeOutcomes : FunctionEnds(out)

SpecExchange == Init /\ [][NextExchange]_vars

(***************************************************************************)
(* The shapes called directly, and the hybrid_query tool                    *)
(***************************************************************************)
\* analysis["suggested_agents"] as a caller of _execute_strategy may pass it
AgentLists == {<<>>, <<"neo4j">>, <<"postgres">>, <<"neo4j", "postgres">>}
SequentialAgentLists == AgentLists \cup {<<"postgres", "neo4j">>}
MergeStrategies == {"combine", "smart"}

\* _execute_strategy lines 248-253 with strategy parallel or hybrid, up to the gather
\* of _execute_parallel (line 297): both coroutines are created and handed to gather
\* in the same step
ExecuteStrategy(q, ctx, agents, strategy) ==
    LET par == SelectSeq(<<"neo4j", "postgres">>, LAMBDA a : InSeq(a, agents)) IN
    /\ Quiet
    /\ pq_query' = q
    /\ pq_ctx' = ctx
    /\ tasks' = [a \in Agents |-> IF InSeq(a, par) THEN Running(QueryNatural(a, q))
                                                   ELSE NoTask]
    /\ call_log' = [i \in 1..Len(par) |-> LogCall(par[i], q, ctx)]
    /\ IF par = <<>>
       THEN /\ shape_result' = ShapeReturn(strategy, <<>>, <<>>)
            /\ pq_pc' = "idle"
       ELSE /\ shape_result' = Pending("execute_strategy", strategy)
            /\ pq_pc' = "xjoin"
    /\ UNCHANGED <<resources, connected_servers, pq_analysis, pq_strategy, payload, npq>>
    /\ UNCHANGED clvars
    /\ UNCHANGED mcpvars
    /\ UNCHANGED wfvars
    /\ UNCHANGED fnvars

\* _execute_strategy lines 246-247 with strategy sequential: _execute_sequential lines
\* 314-326 up to its first provider round trip, or lines 336-340 when the test of
\* line 323 fails; the analysis handed in carries the suggested agents
ExecuteSequential(q, ctx, agents) ==
    /\ Quiet
    /\ pq_query' = q
    /\ pq_ctx' = ctx
    /\ pq_analysis' = [NoAnalysis EXCEPT !.suggested_agents = agents]
    /\ IF SequentialRuns(agents)
       THEN /\ tasks' = [a \in Agents |->
                            IF a = "postgres" THEN Running(QueryNatural("postgres", q))
                                              ELSE NoTask]
            /\ call_log' = <<LogCall("postgres", q, ctx)>>
            /\ shape_result' = Pending("execute_strategy", "sequential")
            /\ pq_pc' = "xseq1"
       ELSE /\ tasks' = [a \in Agents |-> NoTask]
            /\ call_log' = <<>>
            /\ shape_result' = ShapeReturn("sequential", <<>>, <<>>)
            /\ pq_pc' = "idle"
    /\ UNCHANGED <<resources, connected_servers, pq_strategy, payload, npq>>
    /\ UNCHANGED clvars
    /\ UNCHANGED mcpvars
    /\ UNCHANGED wfvars
    /\ UNCHANGED fnvars

\* MCPClient.execute_tool as one round trip of the orchestrator: out is what the tool
\* function does
ExecuteTool(agent, tool, out) ==
    LET response == IF tool \notin tools[agent] THEN ErrorResponse("no encontrada")
                    ELSE IF out.kind = "data" THEN ResultResponse(out.val)
                    ELSE ErrorResponse(out.val)
        outcome == ClientOutcome(response)
    IN  IF agent \notin ConnectedServers("orchestrator") THEN
            [status |-> "raised", resource |-> tool, val |-> "No conectado",
             provider |-> "none"]
        ELSE IF outcome.kind = "RemoteError" THEN
            [status |-> "raised", resource |-> tool, val |-> outcome.val, provider |-> out.kind]
        ELSE
            [status |-> "ok", resource |-> tool, val |-> outcome.val, provider |-> out.kind]

\* _hybrid_query lines 503-507: two execute_tool coroutines handed to asyncio.gather
HybridQuery(merge_strategy) ==
    /\ Quiet
    /\ tasks' = [a \in Agents |-> IF a = "neo4j" THEN Running("execute_cypher")
                                                 ELSE Running("execute_sql")]
    /\ shape_result' = Pending("hybrid_query", merge_strategy)
    /\ pq_pc' = "hq"
    /\ UNCHANGED <<resources, connected_servers, pq_query, pq_ctx, pq_analysis, pq_strategy,
                   call_log, payload, npq>>
    /\ UNCHANGED clvars
    /\ UNCHANGED mcpvars
    /\ UNCHANGED wfvars
    /\ UNCHANGED fnvars

\* _hybrid_query lines 509-521: the "combine" mapping, or what the merger returns
HybridQueryReturn(ts, merge_strategy) ==
    LET results == <<Entry("neo4j", ts["neo4j"]), Entry("postgres", ts["postgres"])>> IN
    [kind |-> "returned", op |-> "hybrid_query", strategy |-> merge_strategy,
     agents_used |-> <<>>,
     results |-> IF merge_strategy = "combine" THEN results
                 ELSE IntelligentMerge(results).data,
     merged |-> merge_strategy # "combine",
     sources |-> IF merge_strategy = "combine" THEN <<>>
                 ELSE IntelligentMerge(results).sources,
     error |-> "None"]

\* one execute_tool of _hybrid_query ends. asyncio.gather(neo4j_task, postgres_task)
\* (line 507, no return_exceptions) raises as soon as one of them has raised and
\* leaves the other running; "orphan" is the time that one takes to end
ToolReturns(agent, out) ==
    /\ pq_pc \in {"hq", "orphan"}
    /\ tasks[agent].status = "running"
    /\ LET t  == ExecuteTool(agent, tasks[agent].resource, out)
           ts == [tasks EXCEPT ![agent] = t]
       IN  /\ tasks' = ts
           /\ IF pq_pc = "orphan" THEN
                  /\ pq_pc' = "idle"
                  /\ UNCHANGED shape_result
              ELSE IF t.status = "raised" THEN
                  /\ shape_result' = [shape_result EXCEPT !.kind = "raised", !.error = t.val]
                  /\ pq_pc' = IF JoinDone(ts) THEN "idle" ELSE "orphan"
              ELSE IF ~JoinDone(ts) THEN
                  UNCHANGED <<shape_result, pq_pc>>
              ELSE
                  /\ shape_result' = HybridQueryReturn(ts, shape_result.strategy)
                  /\ pq_pc' = "idle"
    /\ UNCHANGED <<resources, connected_servers, pq_query, pq_ctx, pq_analysis, pq_strategy,
                   call_log, payload, npq>>
    /\ UNCHANGED clvars
    /\ UNCHANGED mcpvars
    /\ UNCHANGED wfvars
    /\ UNCHANGED fnvars

NextShapes ==
    \/ \E q \in PQQueries, ctx \in PQContexts, agents \in AgentLists,
          strategy \in {"parallel", "hybrid"} : ExecuteStrategy(q, ctx, agents, strategy)
    \/ \E agent \in Agents, out \in ProviderOutcomes : ProviderReturns(agent, out)
    \/ \E merge_strategy \in MergeStrategies : HybridQuery(merge_strategy)
    \/ \E agent \in Agents, out \in ProviderOutcomes : ToolReturns(agent, out)

SpecShapes == Init /\ [][NextShapes]_vars

\* the sequential shape called directly
NextSequential ==
    \/ \E q \in PQQueries, ctx \in PQContexts, agents \in SequentialAgentLists :
          ExecuteSequential(q, ctx, agents)
    \/ \E agent \in Agents, out \in ProviderOutcomes : ProviderReturns(agent, out)

SpecSequential == Init /\ [][NextSequential]_vars

(***************************************************************************)
(* The custom_workflow tool                                                 *)
(***************************************************************************)
MaxSteps == 2

\* a step is a mapping; "absent" stands for a key the mapping does not have
Steps ==
    { [agent |-> "neo4j", tool |-> "execute_cypher"],
      [agent |-> "neo4j", tool |-> "nope"],
      [agent |-> "mongo", tool |-> "execute_cypher"],
      [agent |-> "absent", tool |-> "execute_cypher"],
      [agent |-> "neo4j", tool |-> "absent"] }
Workflows == UNION { [1..n -> Steps] : n \in 0..MaxSteps }

\* lines 603-609: the entry of a step that raised; step.get(key, "unknown")
FailedStep(i, step, msg) ==
    [step |-> i,
     agent |-> IF step.agent = "absent" THEN "unknown" ELSE step.agent,
     tool |-> IF step.tool = "absent" THEN "unknown" ELSE step.tool,
     result |-> "absent", error |-> msg, success |-> FALSE]

\* lines 588-594: the entry of a step whose execute_tool returned
CompletedStep(i, step, val) ==
    [step |-> i, agent |-> step.agent, tool |-> step.tool, result |-> val,
     error |-> "absent", success |-> TRUE]

\* lines 610-615: all() over the entries' success flags
WorkflowReturn(steps, results) ==
    [kind |-> "returned", workflow_steps |-> Len(steps), completed_steps |-> Len(results),
     results |-> results,
     success |-> \A k \in 1..Len(results) : results[k].success]

\* what makes a step fail before any tool function is awaited: step["agent"] or
\* step["tool"] raises KeyError (lines 580-581), execute_tool raises for a server the
\* orchestrator is not connected to (base.py 116-117), or the provider answers that
\* the tool is not registered; "None" when the tool function is awaited
EarlyFailure(step) ==
    IF step.agent = "absent" THEN "KeyError agent"
    ELSE IF step.tool = "absent" THEN "KeyError tool"
    ELSE IF step.agent \notin ConnectedServers("orchestrator") THEN "No conectado"
    ELSE IF step.tool \notin tools[step.agent] THEN "no encontrada"
    ELSE "None"

\* the loop of lines 578-611 from the head of iteration i, with results so far, up to
\* the await of a tool function or to the return
WorkflowLoop(steps, i, results, failed) ==
    IF i > Len(steps) THEN
        /\ wf_out' = WorkflowReturn(steps, results)
        /\ wf_results' = results
        /\ wf_failed' = failed
        /\ wf_pc' = "idle"
        /\ wf_i' = i
    ELSE IF EarlyFailure(steps[i]) # "None" THEN
        LET rs == Append(results, FailedStep(i, steps[i], EarlyFailure(steps[i]))) IN
        /\ wf_out' = WorkflowReturn(steps, rs)
        /\ wf_results' = rs
        /\ wf_failed' = Append(failed, TRUE)
        /\ wf_pc' = "idle"
        /\ wf_i' = i
    ELSE
        /\ wf_out' = NoWorkflow
        /\ wf_results' = results
        /\ wf_failed' = failed
        /\ wf_pc' = "step"
        /\ wf_i' = i

\* _custom_workflow is called
CustomWorkflow(steps) ==
    /\ Quiet
    /\ wf_steps' = steps
    /\ WorkflowLoop(steps, 1, <<>>, <<>>)
    /\ UNCHANGED <<clvars, pqvars, mcpvars, shvars, fnvars>>

\* the tool function awaited by step wf_i returns or raises; execute_tool returns or
\* raises in turn (ExecuteTool), and the loop goes on or breaks
StepEnds(out) ==
    /\ wf_pc = "step"
    /\ LET step == wf_steps[wf_i]
           t == ExecuteTool(step.agent, step.tool, out)
       IN  IF t.status = "raised" THEN
               LET rs == Append(wf_results, FailedStep(wf_i, step, t.val)) IN
               /\ wf_out' = WorkflowReturn(wf_steps, rs)
               /\ wf_results' = rs
               /\ wf_failed' = Append(wf_failed, TRUE)
               /\ wf_pc' = "idle"
               /\ wf_i' = wf_i
           ELSE
               WorkflowLoop(wf_steps, wf_i + 1,
                            Append(wf_results, CompletedStep(wf_i, step, t.val)),
                            Append(wf_failed, out.kind = "raise"))
    /\ UNCHANGED <<clvars, pqvars, mcpvars, shvars, wf_steps, fnvars>>

NextWF ==
    \/ \E steps \in Workflows : CustomWorkflow(steps)
    \/ \E out \in ProviderOutcomes : StepEnds(out)

SpecWF == Init /\ [][NextWF]_vars

(***************************************************************************)
(* Functions of the classifier and of the orchestrator called on their own  *)
(***************************************************************************)
MaxCounter == 3

\* the values the counters of self.stats may hold when the score is computed
CounterValues ==
    { [StatsAsConstructed EXCEPT !["total_queries"] = t, !["llm_queries"] = l,
                                 !["cache_hits"] = c, !["errors"] = e] :
          t \in 0..MaxCounter, l \in 0..MaxCounter, c \in 0..MaxCounter, e \in 0..MaxCounter }

\* a score returned as computed
NoClamp(x) == x

\* line 454: min(100.0, max(0.0, efficiency_score)), on a fraction num / den, den > 0
Clamp(x) ==
    IF x.num > 100 * x.den THEN [num |-> 100, den |-> 1]
    ELSE IF x.num < 0 THEN [num |-> 0, den |-> 1]
    ELSE x

\* PatternAnalyzer._calculate_efficiency_score lines 445-454, as the exact fraction
\* (cache_hits/t)*30 + (llm_queries/t)*40 + (1 - errors/t)*30 over the denominator t
EfficiencyScore(st) ==
    LET t == st["total_queries"] IN
    IF t = 0 THEN [num |-> 100, den |-> 1]
    ELSE Clamp([num |-> 30 * st["cache_hits"] + 40 * st["llm_queries"]
                          + 30 * (t - st["errors"]),
                den |-> t])

\* _calculate_efficiency_score is called while self.stats holds the counters st
CalculateEfficiencyScore(st) ==
    /\ score' = [called |-> TRUE, stats |-> st, num |-> EfficiencyScore(st).num,
                 den |-> EfficiencyScore(st).den]
    /\ UNCHANGED <<clvars, pqvars, mcpvars, shvars, wfvars, merge_out, fallback_out, genvars, covars>>

\* values a results mapping may hold for an agent: a mapping with some of the keys
\* total_nodes, total_tables, error ({"error": ...} is the entry of a failed task),
\* or something that is not a mapping (a list, None)
MergeValues ==
    [kind : {"mapping"}, fields : SUBSET {"total_nodes", "total_tables", "error"}]
      \cup [kind : {"list", "none"}, fields : {{}}]

\* results mappings, as the sequence of their items in key order: keys are distinct
MergeInputs ==
    {<<>>}
      \cup { <<[agent |-> a, kind |-> v.kind, fields |-> v.fields]>> :
                a \in Agents \cup {"mongo"}, v \in MergeValues }
      \cup { <<[agent |-> ab[1], kind |-> v.kind, fields |-> v.fields],
               [agent |-> ab[2], kind |-> w.kind, fields |-> w.fields]>> :
                ab \in {p \in Agents \X Agents : p[1] # p[2]},
                v \in MergeValues, w \in MergeValues }

\* _intelligent_merge is called with results
IntelligentMergeCall(results) ==
    /\ merge_out' = [called |-> TRUE, results |-> results,
                     sources |-> IntelligentMerge(results).sources,
                     data |-> IntelligentMerge(results).data,
                     insights |-> IntelligentMerge(results).insights]
    /\ UNCHANGED <<clvars, pqvars, mcpvars, shvars, wfvars, score, fallback_out, genvars, covars>>

NextMerge == \E results \in MergeInputs : IntelligentMergeCall(results)

SpecMerge == Init /\ [][NextMerge]_vars

\* queries without and with a complexity keyword
FallbackQueries == { <<"esquema">>, <<"grafo", Blank, "tabla">>, <<"comparar", Blank, "stats">>,
                     <<"todos">> }

\* _analyze_with_fallback is called on an analyzer that has its pattern tables; g, r
\* and h are the numbers of patterns of each table the query matches
AnalyzeWithFallbackCall(query, g, r, h) ==
    /\ fallback_out' = [called |-> TRUE, query |-> query, counts |-> <<g, r, h>>,
                        result |-> AnalyzeWithFallback(query, g, r, h)]
    /\ UNCHANGED <<clvars, pqvars, mcpvars, shvars, wfvars, score, merge_out, genvars, covars>>

NextFallback ==
    \E query \in FallbackQueries, g \in 0..MaxMatch, r \in 0..MaxMatch, h \in 0..MaxMatch :
        AnalyzeWithFallbackCall(query, g, r, h)

SpecFallback == Init /\ [][NextFallback]_vars

NextScore == \E st \in CounterValues : CalculateEfficiencyScore(st)

SpecScore == Init /\ [][NextScore]_vars

(***************************************************************************)
(* GeminiClient.generate_content, called on its own                        *)
(***************************************************************************)
Texts == {"t1", "t2"}
Failures == {"timeout", "error"}

AttemptEvent(att, out) == [ev |-> "attempt", n |-> att, out |-> out, delay |-> 0]
WaitEvent(att) == [ev |-> "wait", n |-> att, out |-> "none", delay |-> Delay(att)]

GenFrame ==
    /\ UNCHANGED <<fallback_only, fallback_patterns, pa_initialized, llm_available,
                   analysis_cache, stats, cl_pc, cl_owner, cl_query, cl_ctx, attempt, ret,
                   stages, ncalls, ins_log, evicted, matches>>
    /\ UNCHANGED <<pqvars, mcpvars, shvars, wfvars, score, merge_out, fallback_out, covars>>

\* lines 191-203: the call, which awaits initialize() on a client not initialized
GenerateContent ==
    /\ gen_pc = "idle"
    /\ gen_calls < MaxGen
    /\ gen_calls' = gen_calls + 1
    /\ gen_pc' = IF gc_initialized THEN "attempt" ELSE "init"
    /\ gen_attempt' = 0
    /\ gen_log' = <<>>
    /\ gen_out' = NoGenOut
    /\ UNCHANGED gc_initialized
    /\ GenFrame

\* GeminiClient.initialize lines 104-127 returns
GenInitSucceeds ==
    /\ gen_pc = "init"
    /\ gc_initialized' = TRUE
    /\ gen_pc' = "attempt"
    /\ UNCHANGED <<gen_attempt, gen_log, gen_out, gen_calls>>
    /\ GenFrame

\* GeminiClient.initialize lines 131-138 raises, and so does generate_content
GenInitFails ==
    /\ gen_pc = "init"
    /\ gen_pc' = "idle"
    /\ gen_out' = [kind |-> "raised", val |-> "init"]
    /\ UNCHANGED <<gc_initialized, gen_attempt, gen_log, gen_calls>>
    /\ GenFrame

\* lines 207-221: the attempt returns a non-empty text
GenAttemptReturnsText(text) ==
    /\ gen_pc = "attempt"
    /\ gen_log' = Append(gen_log, AttemptEvent(gen_attempt, "text"))
    /\ gen_out' = [kind |-> "value", val |-> text]
    /\ gen_pc' = "idle"
    /\ UNCHANGED <<gc_initialized, gen_attempt, gen_calls>>
    /\ GenFrame

\* lines 223-241: the attempt times out or fails otherwise
GenAttemptFails(how) ==
    /\ gen_pc = "attempt"
    /\ LET log == Append(gen_log, AttemptEvent(gen_attempt, how)) IN
       CASE AfterFailure(how, gen_attempt) = "raise" ->
               /\ gen_log' = log
               /\ gen_out' = [kind |-> "raised", val |-> how]
               /\ gen_pc' = "idle"
               /\ UNCHANGED gen_attempt
         [] AfterFailure(how, gen_attempt) = "retry" ->
               /\ gen_log' = log
               /\ gen_attempt' = gen_attempt + 1
               /\ UNCHANGED <<gen_pc, gen_out>>
         [] AfterFailure(how, gen_attempt) = "sleep" ->
               /\ gen_log' = Append(log, WaitEvent(gen_attempt))
               /\ gen_pc' = "sleep"
               /\ UNCHANGED <<gen_attempt, gen_out>>
    /\ UNCHANGED <<gc_initialized, gen_calls>>
    /\ GenFrame

\* asyncio.sleep(delay) of line 241 is over
GenSleepDone ==
    /\ gen_pc = "sleep"
    /\ gen_pc' = "attempt"
    /\ gen_attempt' = gen_attempt + 1
    /\ UNCHANGED <<gc_initialized, gen_log, gen_out, gen_calls>>
    /\ GenFrame

NextGen ==
    \/ GenerateContent
    \/ GenInitSucceeds
    \/ GenInitFails
    \/ \E text \in Texts : GenAttemptReturnsText(text)
    \/ \E how \in Failures : GenAttemptFails(how)
    \/ GenSleepDone

SpecGen == Init /\ [][NextGen]_vars

(***************************************************************************)
(* analyze_query called by several callers on one PatternAnalyzer: the     *)
(* calls interleave where they suspend, in initialize() and in the remote  *)
(* call, and run alone in between                                          *)
(***************************************************************************)
CoFrame ==
    /\ UNCHANGED <<fallback_only, fallback_patterns, cl_pc, cl_owner, cl_query, cl_ctx,
                   attempt, ret, stages, ncalls, ins_log, evicted, matches>>
    /\ UNCHANGED <<pqvars, mcpvars, shvars, wfvars, score, merge_out, fallback_out, genvars>>

InFlight(pc) == {c \in Callers : pc[c] # "idle"}

\* the call of caller c returns a
CoReturns(c, a) ==
    /\ co_pc' = [co_pc EXCEPT ![c] = "idle"]
    /\ co_ret' = [co_ret EXCEPT ![c] = [kind |-> "ok", analysis_method |-> a.analysis_method]]
    /\ co_seen' = [co_seen EXCEPT ![c] = NoStats]
    /\ co_query' = [co_query EXCEPT ![c] = <<>>]
    /\ co_attempt' = [co_attempt EXCEPT ![c] = 0]

\* lines 170-181: the except branch of analyze_query
CoEmergency(c, q, s, msg) ==
    /\ stats' = Inc(s, "errors")
    /\ CoReturns(c, [Tagged(EmergencyAnalysis(q), "emergency", 5) EXCEPT !.error = msg])
    /\ UNCHANGED analysis_cache

\* lines 160-168: store and return
CoStoreAndReturn(c, q, s, a) ==
    /\ stats' = s
    /\ analysis_cache' = CacheResult(analysis_cache, GenerateCacheKey(q, <<>>), a)
    /\ CoReturns(c, a)

\* the counters after the remote stage answered: the increment of line 151 is applied
\* to the stats as they are now, not as the caller saw them before it suspended
CountRemoteOnSeen(now, seen) == Inc(seen, "llm_queries")

CountRemote(now, seen) == Inc(now, "llm_queries")

\* the pattern matches of the heuristic stage: none, or one hybrid pattern
CoMatches == { <<0, 0, 0>>, <<0, 0, 1>> }

\* lines 127-158: from the counter increment up to the first suspension or the return
CoBody(c, q) ==
    LET s1  == Inc(stats, "total_queries")
        key == GenerateCacheKey(q, <<>>)
    IN
    IF key \in CacheKeys(analysis_cache) THEN
        /\ stats' = Inc(s1, "cache_hits")
        /\ analysis_cache' = CacheOnHit(analysis_cache, key)
        /\ CoReturns(c, [CacheGet(analysis_cache, key) EXCEPT !.from_cache = TRUE,
                                                              !.analysis_method = "cache"])
    ELSE IF llm_available' /\ fallback_only = "unset" THEN
        CoEmergency(c, q, s1, "no attribute fallback_only")
    ELSE IF llm_available' /\ fallback_only = "False" THEN
        /\ stats' = s1
        /\ co_pc' = [co_pc EXCEPT ![c] = "attempt"]
        /\ co_query' = [co_query EXCEPT ![c] = q]
        /\ co_attempt' = [co_attempt EXCEPT ![c] = 0]
        /\ co_seen' = [co_seen EXCEPT ![c] = s1]
        /\ UNCHANGED <<analysis_cache, co_ret>>
    ELSE IF fallback_patterns = "unset" THEN
        CoEmergency(c, q, s1, "no attribute fallback_patterns")
    ELSE IF "fallback_queries" \notin DOMAIN stats THEN
        CoEmergency(c, q, s1, "KeyError fallback_queries")
    ELSE
        \E m \in CoMatches :
            CoStoreAndReturn(c, q, Inc(s1, "fallback_queries"),
                             Tagged(AnalyzeWithFallback(q, m[1], m[2], m[3]), "fallback", 7))

\* the counts of calls after a step of caller c, whose call is over when c is idle
CoCounted(c, made) ==
    LET over == co_pc'[c] = "idle" IN
    co_count' = [made     |-> co_count.made + made,
                 returned |-> co_count.returned
                                + (IF over /\ co_ret'[c].kind = "ok" THEN 1 ELSE 0),
                 raised   |-> co_count.raised
                                + (IF over /\ co_ret'[c].kind = "raised" THEN 1 ELSE 0),
                 peak     |-> IF Cardinality(InFlight(co_pc')) > co_count.peak
                              THEN Cardinality(InFlight(co_pc')) ELSE co_count.peak]

\* caller c calls analyze_query(q): lines 123-126 and, when nothing has to be awaited,
\* the body
CoAnalyzeQuery(c, q) ==
    /\ co_pc[c] = "idle"
    /\ co_count.made < MaxCoCalls
    /\ IF pa_initialized THEN
           /\ UNCHANGED <<pa_initialized, llm_available, gc_initialized>>
           /\ CoBody(c, q)
       ELSE IF gc_initialized THEN
           /\ llm_available' = TRUE
           /\ pa_initialized' = TRUE
           /\ UNCHANGED gc_initialized
           /\ CoBody(c, q)
       ELSE
           /\ co_pc' = [co_pc EXCEPT ![c] = "init"]
           /\ co_query' = [co_query EXCEPT ![c] = q]
           /\ UNCHANGED <<pa_initialized, llm_available, gc_initialized, analysis_cache,
                          stats, co_attempt, co_seen, co_ret>>
    /\ CoCounted(c, 1)
    /\ CoFrame

\* the GeminiClient.initialize awaited by caller c returns: PatternAnalyzer 86-95, then
\* the body
CoInitSucceeds(c) ==
    /\ co_pc[c] = "init"
    /\ gc_initialized' = TRUE
    /\ llm_available' = TRUE
    /\ pa_initialized' = TRUE
    /\ CoBody(c, co_query[c])
    /\ CoCounted(c, 0)
    /\ CoFrame

\* the GeminiClient.initialize awaited by caller c raises: PatternAnalyzer 89-92, and
\* analyze_query raises
CoInitFails(c) ==
    /\ co_pc[c] = "init"
    /\ llm_available' = FALSE
    /\ co_pc' = [co_pc EXCEPT ![c] = "idle"]
    /\ co_ret' = [co_ret EXCEPT ![c] = [kind |-> "raised", analysis_method |-> "unset"]]
    /\ co_query' = [co_query EXCEPT ![c] = <<>>]
    /\ UNCHANGED <<pa_initialized, gc_initialized, analysis_cache, stats, co_attempt,
                   co_seen>>
    /\ CoCounted(c, 0)
    /\ CoFrame

\* lines 148-151 then 160-168, once analyze_query_intent has returned intent to caller c
CoLlmReturn(c, intent) ==
    CoStoreAndReturn(c, co_query[c], CountRemote(stats, co_seen[c]),
                     Tagged(AnalyzeWithLlm(co_query[c], intent), "llm", 9))

\* the attempt of caller c returns a non-empty text
CoAttemptReturnsText(c, resp) ==
    /\ co_pc[c] = "attempt"
    /\ UNCHANGED <<pa_initialized, llm_available, gc_initialized>>
    /\ CoLlmReturn(c, IntentFromResponse(co_query[c], resp))
    /\ CoCounted(c, 0)
    /\ CoFrame

\* the attempt of caller c times out or fails otherwise
CoAttemptFails(c, how) ==
    /\ co_pc[c] = "attempt"
    /\ UNCHANGED <<pa_initialized, llm_available, gc_initialized>>
    /\ CASE AfterFailure(how, co_attempt[c]) = "raise" ->
               CoLlmReturn(c, FallbackIntentAnalysis(co_query[c]))
         [] AfterFailure(how, co_attempt[c]) = "retry" ->
               /\ co_attempt' = [co_attempt EXCEPT ![c] = @ + 1]
               /\ UNCHANGED <<co_pc, co_query, co_seen, co_ret, analysis_cache, stats>>
         [] AfterFailure(how, co_attempt[c]) = "sleep" ->
               /\ co_pc' = [co_pc EXCEPT ![c] = "sleep"]
               /\ UNCHANGED <<co_query, co_attempt, co_seen, co_ret, analysis_cache, stats>>
    /\ CoCounted(c, 0)
    /\ CoFrame

\* the sleep of caller c is over
CoSleepDone(c) ==
    /\ co_pc[c] = "sleep"
    /\ co_pc' = [co_pc EXCEPT ![c] = "attempt"]
    /\ co_attempt' = [co_attempt EXCEPT ![c] = @ + 1]
    /\ UNCHANGED <<pa_initialized, llm_available, gc_initialized, analysis_cache, stats,
                   co_query, co_seen, co_ret>>
    /\ CoCounted(c, 0)
    /\ CoFrame

\* one remote answer that parses: what the calls compete for is the cache and the
\* counters, not the content of the answers
CoResponses == { resp \in CacheResponses : resp.needs_both = "false" }

NextCo ==
    \/ \E c \in Callers, q \in CacheQueries : CoAnalyzeQuery(c, q)
    \/ \E c \in Callers : CoInitSucceeds(c)
    \/ \E c \in Callers : CoInitFails(c)
    \/ \E c \in Callers, resp \in CoResponses : CoAttemptReturnsText(c, resp)
    \/ \E c \in Callers, how \in Failures : CoAttemptFails(c, how)
    \/ \E c \in Callers : CoSleepDone(c)

SpecCo == Init /\ [][NextCo]_vars

(***************************************************************************)
(* Properties of the classifier                                            *)
(***************************************************************************)
Consistent(a) == a.needs_both => (a.needs_graph /\ a.needs_relational)

\* C1: every Analysis analyze_query returns, whichever stage produced it (remote,
\* heuristic, emergency or cache) and whatever the remote stage answered, satisfies
\* needs_both => needs_graph /\ needs_relational; so does every Analysis the cache holds.
ThmC1 ==
    /\ ret.kind = "ok" => Consistent(ret.val)
    /\ \A i \in 1..Len(analysis_cache) : Consistent(analysis_cache[i].val)

\* the remote stage answered with needs_both set and the call returned its Analysis
WitC1 ==
    /\ ret.kind = "ok"
    /\ ret.val.analysis_method = "llm"
    /\ ret.val.llm_reasoning = "model"
    /\ ret.val.needs_both

\* queries that differ only by letter case or by surrounding whitespace
Variants == { <<"esquema">>, <<"ESQUEMA">>, <<Blank, "esquema", Blank>> }

\* C3 as stated: when analyze_query has returned for one query and is next called,
\* with the same context, on a query differing from it only by letter case or by
\* surrounding whitespace, both have the same cache key and the second call returns
\* analysis_method = cache.
CexC3 ==
    [][ ( /\ ret.kind = "ok"
          /\ ret'.kind # "none"
          /\ ret'.n = ret.n + 1
          /\ ret.query \in Variants
          /\ ret'.query \in Variants
          /\ ret'.query # ret.query
          /\ ret'.ctx = ret.ctx )
        => ( /\ GenerateCacheKey(ret.query, ret.ctx) = GenerateCacheKey(ret'.query, ret'.ctx)
             /\ ret'.kind = "ok"
             /\ ret'.val.analysis_method = "cache" ) ]_vars

\* C4: in every reachable state the analysis cache holds at most cache_max_size entries.
ThmC4 == Len(analysis_cache) <= cache_max_size

\* the cache is full and the last insertion had to make room
WitC4 == Len(analysis_cache) = cache_max_size /\ evicted # {}

\* C5: eviction is strict FIFO.  The cache holds, in order, exactly the last
\* min(n, cache_max_size) of the n keys inserted since it was last empty, whatever
\* hits happened in between; an insertion that finds the cache full removes the one
\* key inserted earliest among those present.
ThmC5 ==
    LET n == Len(ins_log)
        m == Len(analysis_cache)
    IN  /\ m = IF n < cache_max_size THEN n ELSE cache_max_size
        /\ \A i \in 1..m : analysis_cache[i].key = ins_log[n - m + i]
        /\ evicted # {} => n > m /\ evicted = {ins_log[n - m]}

\* cache_max_size + 1 distinct keys were inserted with one hit among the calls: the
\* first-inserted key is gone and the others are present
WitC5 ==
    /\ Len(ins_log) = cache_max_size + 1
    /\ ncalls = cache_max_size + 2
    /\ stats["cache_hits"] = 1
    /\ evicted = {ins_log[1]}
    /\ ins_log[1] \notin CacheKeys(analysis_cache)
    /\ \A i \in 2..Len(ins_log) : ins_log[i] \in CacheKeys(analysis_cache)

StageRank(st) ==
    CASE st = "cache" -> 1 [] st = "remote" -> 2 [] st = "gave_up" -> 3
      [] st = "intent_fallback" -> 4 [] st = "heuristic" -> 5 [] st = "emergency" -> 6

\* C10 as stated: within one call the stages are attempted in the order cache, remote,
\* heuristic, emergency; a cache hit runs no other stage; the heuristic stage runs
\* only if the remote stage is disabled or unavailable; and an emergency result is
\* returned only after the heuristic stage was attempted.
CexC10 ==
    (ret.kind = "ok" /\ ret.n = ncalls) =>
        /\ \A i, j \in 1..Len(stages) : i < j => StageRank(stages[i]) < StageRank(stages[j])
        /\ ret.val.analysis_method = "cache" => stages = <<"cache">>
        /\ InSeq("heuristic", stages) =>
               /\ ~InSeq("remote", stages)
               /\ ~llm_available \/ fallback_only = "True"
        /\ ret.val.analysis_method = "emergency" => InSeq("heuristic", stages)

ThmC12 ==
    [][ (cl_pc \in {"attempt", "sleep"} /\ cl_pc' \notin {"attempt", "sleep"})
        => (ret'.kind = "ok" /\ ret'.n = ncalls /\ ret'.val.original_query = cl_query) ]_vars

\* every attempt of generate_content failed and the call returned an Analysis
WitC12 ==
    /\ ret.kind = "ok"
    /\ ret.n = ncalls
    /\ InSeq("gave_up", stages)
    /\ attempt = max_retries - 1

\* C13 as stated: when the remote stage cannot be initialised, analyze_query still
\* returns an Analysis, produced by the heuristic or the emergency stage.
CexC13 ==
    [][ (cl_pc = "init" /\ cl_pc' # "init" /\ ~gc_initialized')
        => (ret'.kind = "ok" /\ ret'.val.analysis_method \in {"fallback", "emergency"}) ]_vars

\* C14: every emergency result analyze_query returns has needs_both, needs_graph and
\* needs_relational set, complexity unknown, both agents suggested, confidence 0.5,
\* the emergency flag set and the message of the error that triggered it attached.
ThmC14 ==
    (ret.kind = "ok" /\ ret.val.analysis_method = "emergency") =>
        /\ ret.val.needs_both /\ ret.val.needs_graph /\ ret.val.needs_relational
        /\ ret.val.complexity = "unknown"
        /\ ret.val.suggested_agents = <<"neo4j", "postgres">>
        /\ ret.val.confidence = 5
        /\ ret.val.emergency_mode
        /\ ret.val.error # "absent"
        /\ ret.val.original_query = ret.query
        /\ ~ret.val.from_cache

\* an emergency result triggered by the missing statistics key
WitC14 ==
    /\ ret.kind = "ok"
    /\ ret.val.analysis_method = "emergency"
    /\ ret.val.error = "KeyError fallback_queries"

(***************************************************************************)
(* Properties of process_query                                             *)
(***************************************************************************)
\* this process_query has returned
Returned == payload.kind # "none"

\* something failed during this process_query: analyze_query raised, or a provider's
\* resource function raised, or request_resource raised
FailureOccurred ==
    \/ pq_analysis.analysis_method = "emergency_default"
    \/ \E a \in Agents : tasks[a].status = "raised" \/ tasks[a].provider = "raise"

\* a failure that left the analysis or the shape and reached process_query's handler
FailurePropagated ==
    /\ pq_strategy \in {"single_agent", "sequential"}
    /\ \E a \in Agents : tasks[a].status = "raised"

\* C2 as stated: process_query returns a payload carrying the original query, and
\* whenever a failure occurred in classification or agent execution the payload is
\* the error payload.
CexC2 ==
    Returned =>
        /\ payload.query = pq_query
        /\ FailureOccurred => (payload.kind = "error" /\ payload.data_error # "absent")

\* C2, amended: process_query returns a payload carrying the original query; the
\* payload is the error payload (data.error set) exactly when a failure reached
\* process_query's handler, i.e. a provider call of the single_agent or sequential
\* shape raised.  Failures absorbed on the way (analyze_query raising, a task of the
\* parallel shape raising, a provider failing with an empty message) give the
\* normal payload.
ThmC2 ==
    Returned =>
        /\ pq_pc = "idle"
        /\ payload.kind \in {"ok", "error"}
        /\ payload.query = pq_query
        /\ payload.kind = "error" <=> FailurePropagated
        /\ payload.kind = "error" <=> payload.data_error # "absent"

\* analyze_query raised and the one provider call of the single_agent shape raised too
WitC2 ==
    /\ Returned
    /\ pq_analysis.analysis_method = "emergency_default"
    /\ pq_strategy = "single_agent"
    /\ payload.kind = "error"
    /\ payload.data_error = "boom"

\* the selector as a table over the three fields it reads
StrategyTable(needs_both, complexity, suggested_agents) ==
    CASE needs_both /\ complexity = "hybrid" -> "sequential"
      [] needs_both /\ complexity # "hybrid" -> "parallel"
      [] ~needs_both /\ Len(suggested_agents) = 1 -> "single_agent"
      [] OTHER -> "parallel"

\* C6: the strategy process_query selects is the table's value for (needs_both,
\* complexity, suggested_agents) of the Analysis, it is never hybrid, and the
\* Analysis reported in the payload is the one the selector was given.
ThmC6 ==
    /\ pq_strategy # "none" =>
           /\ pq_strategy = StrategyTable(pq_analysis.needs_both, pq_analysis.complexity,
                                          pq_analysis.suggested_agents)
           /\ pq_strategy # "hybrid"
    /\ payload.kind = "ok" =>
           /\ payload.analysis = pq_analysis
           /\ payload.strategy = pq_strategy

\* a two-agent Analysis that is not hybrid was sent to the parallel shape
WitC6 ==
    /\ pq_strategy = "parallel"
    /\ pq_analysis.needs_both
    /\ pq_analysis.complexity = "simple"
    /\ pq_analysis.analysis_method = "llm"

\* the parallel shape ran both agents and exactly one of the two tasks raised
OneOfTwoFailed ==
    /\ pq_pc = "idle"
    /\ pq_strategy = "parallel"
    /\ InSeq("neo4j", pq_analysis.suggested_agents)
    /\ InSeq("postgres", pq_analysis.suggested_agents)
    /\ \E a, b \in Agents : a # b /\ tasks[a].status = "raised" /\ tasks[b].status = "ok"

Items(c) == {c[i] : i \in 1..Len(c)}

\* C8: when the sequential shape runs with both agents suggested and both calls
\* succeed, the result has exactly two steps, postgres then neo4j, agents_used in
\* the same order, and the context passed to the neo4j step is the caller's context
\* with postgres_data set to the postgres step's output.
ThmC8 ==
    ( /\ pq_pc = "idle"
      /\ pq_strategy = "sequential"
      /\ tasks["postgres"].status = "ok"
      /\ tasks["neo4j"].status = "ok" )
    =>  /\ payload.kind = "ok"
        /\ payload.data_strategy = "sequential"
        /\ Len(payload.results) = 2
        /\ payload.results[1].agent = "postgres"
        /\ payload.results[2].agent = "neo4j"
        /\ payload.results[1].val = tasks["postgres"].val
        /\ payload.results[2].val = tasks["neo4j"].val
        /\ payload.agents_used = <<"postgres", "neo4j">>
        /\ Len(call_log) = 2
        /\ call_log[1].agent = "postgres" /\ call_log[1].ctx = pq_ctx
        /\ call_log[2].agent = "neo4j"
        /\ Items(call_log[2].ctx) =
               {it \in Items(pq_ctx) : it[1] # "postgres_data"}
               \cup {<<"postgres_data", tasks["postgres"].val>>}
        /\ Len(call_log[2].ctx) = Cardinality(Items(call_log[2].ctx))

\* both steps succeeded for a caller whose context already held other items
WitC8 ==
    /\ pq_pc = "idle"
    /\ pq_strategy = "sequential"
    /\ payload.kind = "ok"
    /\ Len(payload.results) = 2
    /\ pq_ctx # <<>>
    /\ tasks["postgres"].val = "d2"

RemoteDisabled == fallback_only = "True" \/ ~llm_available

\* the first process_query of the run is over, was classified with the remote stage
\* disabled, and no provider failed
FirstQueryDone(q) ==
    /\ npq = 1
    /\ pq_pc = "idle"
    /\ payload.kind # "none"
    /\ pq_query = q
    /\ RemoteDisabled
    /\ \A a \in Agents : tasks[a].provider # "raise"

\* C22: end to end with the remote stage disabled, a query asking for the schema whose
\* heuristic match counts are graph 1, relational 0, hybrid 0 is classified
\* needs_graph, not needs_relational, complexity simple, suggested_agents [neo4j];
\* the selector returns single_agent; the engine makes exactly one fetch, of the
\* graph agent's schema resource, and returns that resource's value unchanged as
\* results with agents_used [neo4j].
CexC22 ==
    (FirstQueryDone(<<"esquema">>) /\ matches \in {<<>>, <<1, 0, 0>>}) =>
        /\ payload.kind = "ok"
        /\ payload.analysis.needs_graph
        /\ ~payload.analysis.needs_relational
        /\ payload.analysis.complexity = "simple"
        /\ payload.analysis.suggested_agents = <<"neo4j">>
        /\ payload.strategy = "single_agent"
        /\ Len(call_log) = 1
        /\ call_log[1].agent = "neo4j"
        /\ call_log[1].resource = "graph_schema"
        /\ payload.results = <<[agent |-> "neo4j", kind |-> "data",
                                val |-> tasks["neo4j"].val]>>
        /\ tasks["neo4j"].provider = "data"
        /\ payload.agents_used = <<"neo4j">>

\* C23: end to end through the heuristic stage, the query "compare both databases'
\* statistics", which matches a hybrid pattern, is classified needs_both with
\* complexity hybrid; the selector returns sequential; the relational statistics
\* resource is fetched first, and the graph statistics resource is fetched next with
\* the relational statistics in its context.
CexC23 ==
    (/\ FirstQueryDone(<<"compare", Blank, "statistics">>)
     /\ matches # <<>> => matches[3] > 0) =>
        /\ payload.kind = "ok"
        /\ payload.analysis.needs_both
        /\ payload.analysis.complexity = "hybrid"
        /\ payload.strategy = "sequential"
        /\ Len(call_log) = 2
        /\ call_log[1].agent = "postgres"
        /\ call_log[1].resource = "table_statistics"
        /\ call_log[2].agent = "neo4j"
        /\ call_log[2].resource = "graph_stats"
        /\ <<"postgres_data", tasks["postgres"].val>> \in Items(call_log[2].ctx)

\* C24: the efficiency score is at least 0 and at most 100 for every combination of
\* the counters total_queries, llm_queries, cache_hits and errors, all zero included,
\* and combinations no run produces included (more hits or errors than queries).
ThmC24 == score.called => (0 <= score.num /\ score.num <= 100 * score.den /\ score.den > 0)

\* a score that had to be cut: more cache hits and remote answers than queries
WitC24 ==
    /\ score.called
    /\ score.stats["total_queries"] = 1
    /\ score.stats["cache_hits"] = 3
    /\ score.stats["llm_queries"] = 3
    /\ score.stats["errors"] = 0
    /\ score.num = 100
    /\ score.den = 1

\* C25: for every results mapping, error entries and values that are not mappings
\* included, _intelligent_merge returns; sources are exactly the agent ids that are
\* keys of results, data is results unchanged, and there is an insight if and only if
\* both agents are present, the graph agent's value is a mapping with total_nodes and
\* the relational agent's value is a mapping with total_tables.
ThmC25 ==
    merge_out.called =>
        LET rs == merge_out.results
            summary(a, f) == \E i \in 1..Len(rs) :
                                 /\ rs[i].agent = a
                                 /\ rs[i].kind = "mapping"
                                 /\ f \in rs[i].fields
        IN  /\ Len(merge_out.sources) = Len(rs)
            /\ \A i \in 1..Len(rs) : merge_out.sources[i] = rs[i].agent
            /\ merge_out.data = rs
            /\ Len(merge_out.insights) \in {0, 1}
            /\ merge_out.insights # <<>> <=>
                   (summary("neo4j", "total_nodes") /\ summary("postgres", "total_tables"))

\* both agents present, the graph agent's entry is an error entry: no insight
WitC25 ==
    /\ merge_out.called
    /\ Len(merge_out.results) = 2
    /\ merge_out.results[1].agent = "neo4j"
    /\ merge_out.results[1].fields = {"error"}
    /\ merge_out.results[2].fields = {"total_tables"}
    /\ merge_out.insights = <<>>
    /\ merge_out.sources = <<"neo4j", "postgres">>

Counter(s, k) == IF k \in DOMAIN s THEN s[k] ELSE 0

StageCounters == {"cache_hits", "llm_queries", "fallback_queries", "errors"}

StageCounter(method) ==
    CASE method = "cache" -> "cache_hits"
      [] method = "llm" -> "llm_queries"
      [] method = "fallback" -> "fallback_queries"
      [] method = "emergency" -> "errors"

\* the step in which a call of analyze_query ends counts its stage: the counter of
\* the analysis_method it returns goes up by one and no other stage counter moves
StageCounted ==
    (ret'.kind # "none" /\ ret'.n # ret.n) =>
        /\ ret'.kind = "ok"
        /\ \A k \in StageCounters :
               Counter(stats', k) = Counter(stats, k)
                   + (IF k = StageCounter(ret'.val.analysis_method) THEN 1 ELSE 0)

\* with no call in flight, every call made has been counted once
AllCounted ==
    cl_pc \in {"idle", "done"} =>
        /\ stats["total_queries"] = ncalls
        /\ stats["total_queries"] = Counter(stats, "cache_hits") + Counter(stats, "llm_queries")
                                      + Counter(stats, "fallback_queries")
                                      + Counter(stats, "errors")

\* C27: every call of analyze_query adds exactly one to total_queries and exactly one
\* to one stage counter, that of the analysis_method of the Analysis it returns (cache
\* -> cache_hits, llm -> llm_queries, fallback -> fallback_queries, emergency ->
\* errors); so whenever no call is in flight total_queries is the number of calls made
\* and the sum of the four stage counters.
CexC27 == []AllCounted /\ [][StageCounted]_vars

AttemptsMade(log) == Cardinality({i \in 1..Len(log) : log[i].ev = "attempt"})
Succeeded(log) == \E i \in 1..Len(log) : log[i].ev = "attempt" /\ log[i].out = "text"
GenOver == gen_pc = "idle" /\ gen_calls > 0

\* C28: one call of generate_content makes at most max_retries attempts; nothing
\* follows its first successful attempt; a call whose attempts all failed made exactly
\* max_retries of them and ended by raising; a call that returned a value ended on a
\* successful attempt.
ThmC28 ==
    /\ AttemptsMade(gen_log) <= max_retries
    /\ \A i \in 1..Len(gen_log) :
           (gen_log[i].ev = "attempt" /\ gen_log[i].out = "text") =>
               /\ i = Len(gen_log)
               /\ gen_pc = "idle"
               /\ gen_out.kind = "value"
    /\ (GenOver /\ AttemptsMade(gen_log) > 0 /\ ~Succeeded(gen_log)) =>
           /\ AttemptsMade(gen_log) = max_retries
           /\ gen_out.kind = "raised"
    /\ gen_out.kind = "value" =>
           /\ gen_log # <<>>
           /\ gen_log[Len(gen_log)] = AttemptEvent(gen_attempt, "text")

\* a call whose every attempt failed has ended
WitC28 ==
    /\ GenOver
    /\ gen_out.kind = "raised"
    /\ AttemptsMade(gen_log) = max_retries
    /\ ~Succeeded(gen_log)

\* C29: in a call of generate_content every attempt that is not the last one, whatever
\* its failure, is followed by a wait of base_delay * 2^attempt seconds before the next
\* attempt, and the call does not end on a wait.
CexC29 ==
    /\ \A i \in 1..Len(gen_log) :
           (gen_log[i].ev = "attempt" /\ i < Len(gen_log)) =>
               gen_log[i + 1] = [ev |-> "wait", n |-> gen_log[i].n, out |-> "none",
                                 delay |-> base_delay * 2 ^ gen_log[i].n]
    /\ (GenOver /\ gen_log # <<>>) => gen_log[Len(gen_log)].ev = "attempt"

\* C30: with several analyze_query calls in flight on one PatternAnalyzer, interleaved
\* where they suspend, the cache never holds more than cache_max_size entries, and once
\* every call made has returned total_queries is the number of calls made; no increment
\* is lost on the way: at every moment total_queries counts the calls that got past
\* initialisation and is the sum of the stage counters and the calls still suspended
\* in the remote stage.
ThmC30 ==
    /\ Len(analysis_cache) <= cache_max_size
    /\ (InFlight(co_pc) = {} /\ co_count.returned = co_count.made) =>
           stats["total_queries"] = co_count.made
    /\ stats["total_queries"] =
           co_count.made - co_count.raised - Cardinality({c \in Callers : co_pc[c] = "init"})
    /\ stats["total_queries"] =
           Counter(stats, "cache_hits") + Counter(stats, "llm_queries")
             + Counter(stats, "fallback_queries") + Counter(stats, "errors")
             + Cardinality({c \in Callers : co_pc[c] \in {"attempt", "sleep"}})

\* every call has returned, calls were in flight together and the cache is full
WitC30 ==
    /\ InFlight(co_pc) = {}
    /\ co_count.made = MaxCoCalls
    /\ co_count.returned = co_count.made
    /\ co_count.peak >= 2
    /\ Len(analysis_cache) = cache_max_size
    /\ stats["llm_queries"] >= 2

\* the counters as __init__ sets them
ResetStats(s) == [k \in DOMAIN s |-> 0]

NonDecreasing(s, t) == DOMAIN t = DOMAIN s /\ \A k \in DOMAIN s : t[k] >= s[k]

\* C31: clear_cache puts every usage counter back to its initial value, and no other
\* operation (analyze_query, the eviction in _cache_result, close) decreases a counter.
CexC31 ==
    [][ /\ ClearCache => stats' = ResetStats(stats)
        /\ ~ClearCache => NonDecreasing(stats, stats') ]_vars

\* C32: _execute_sequential handed suggested_agents that are not both postgres and
\* neo4j calls no provider and returns an empty results list and an empty agents_used
\* with strategy "sequential".
ThmC32 ==
    (/\ shape_result.op = "execute_strategy"
     /\ shape_result.strategy = "sequential"
     /\ ~(InSeq("postgres", pq_analysis.suggested_agents)
          /\ InSeq("neo4j", pq_analysis.suggested_agents))) =>
        /\ shape_result.kind = "returned"
        /\ shape_result.results = <<>>
        /\ shape_result.agents_used = <<>>
        /\ call_log = <<>>
        /\ \A a \in Agents : tasks[a] = NoTask
        /\ pq_pc = "idle"

\* the sequential shape returned for a single suggested agent
WitC32 ==
    /\ shape_result.op = "execute_strategy"
    /\ shape_result.strategy = "sequential"
    /\ shape_result.kind = "returned"
    /\ pq_analysis.suggested_agents = <<"postgres">>

(***************************************************************************)
(* Properties of the capability protocol                                   *)
(***************************************************************************)
\* the names each provider registers, as its constructor lists them
RegisteredNames(server, method) ==
    CASE server = "neo4j" -> IF method = "get_resource" THEN neo4j_resources ELSE neo4j_tools
      [] server = "postgres" -> IF method = "get_resource" THEN postgres_resources
                                                           ELSE postgres_tools
      [] server = "orchestrator" -> IF method = "get_resource" THEN orchestrator_resources
                                                               ELSE orchestrator_tools

HandlingFailed ==
    \/ mcp_msg.method \notin {"get_resource", "execute_tool"}
    \/ ~mcp_msg.has_params
    \/ mcp_msg.name \notin RegisteredNames(mcp_msg.server, mcp_msg.method)
    \/ mcp_fn = "raise"

\* C15: every message delivered to a provider's handle_request is answered by a
\* response message (the handling never ends without one); when the message names an
\* unregistered resource or tool, an unsupported method, carries no params, or the
\* resource/tool function raised, the response's error field is set (it is not None,
\* it holds the failure's message) and its result is absent; for a name that is not
\* registered no resource or tool function is invoked.
ThmC15 ==
    /\ (Len(mcp_delivered) > 0 /\ mcp_pc = "idle") => mcp_response # NoResponse
    /\ (mcp_response # NoResponse /\ HandlingFailed) =>
           /\ mcp_response.error # "None"
           /\ mcp_response.result = "None"
    /\ (Len(mcp_delivered) > 0
          /\ mcp_msg.name \notin RegisteredNames(mcp_msg.server, mcp_msg.method)) =>
           mcp_invoked = {}

\* a tool function invoked by handle_request raised and the response carries its message
WitC15 ==
    /\ mcp_msg.via = "handle_request"
    /\ mcp_msg.method = "execute_tool"
    /\ mcp_fn = "raise"
    /\ mcp_response.error = "boom"

\* the providers the requester of the current request was connected to: the orchestrator
\* is connected to the two database agents (orchestrator.py 41-42), nobody else to anything
AmongConnections ==
    /\ mcp_msg.requester = "orchestrator"
    /\ mcp_msg.server \in {"neo4j", "postgres"}

\* C16: a request_resource or execute_tool call naming a provider that is not among
\* the requester's connections fails with NotConnected, and no message of that call
\* is delivered to any provider (nor any function invoked); a call naming a connected
\* provider never fails that way.
ThmC16 ==
    mcp_msg.via \in {"request_resource", "execute_tool"} =>
        /\ ~AmongConnections =>
               /\ mcp_outcome.kind = "NotConnected"
               /\ mcp_delivered = <<>>
               /\ mcp_invoked = {}
               /\ mcp_pc = "idle"
        /\ AmongConnections => mcp_outcome.kind # "NotConnected"

\* a database agent, connected to nobody, asked the other database agent for one of
\* its registered tools
WitC16 ==
    /\ mcp_msg.via = "execute_tool"
    /\ mcp_msg.requester = "neo4j"
    /\ mcp_msg.server = "postgres"
    /\ mcp_msg.name = "execute_sql"
    /\ mcp_outcome.kind = "NotConnected"

\* C17: once a request_resource / execute_tool call that reached its provider is
\* over, it has failed with a RemoteError whenever the provider's handling failed
\* (unregistered name, unsupported method, or a function that raised, whatever the
\* message of that failure, the empty one included), and it has returned the
\* response's result only when the provider succeeded.
CexC17 ==
    (mcp_msg.via \in {"request_resource", "execute_tool"}
       /\ Len(mcp_delivered) > 0 /\ mcp_pc = "idle") =>
        /\ HandlingFailed => mcp_outcome.kind = "RemoteError"
        /\ mcp_outcome.kind = "returned" =>
               /\ ~HandlingFailed
               /\ mcp_outcome.val = mcp_response.result

\* C18: discover_servers does not raise and returns exactly one entry per provider
\* the requester is connected to; the entry of a provider whose enumeration failed is
\* an {error: ...} entry, and the entry of every other provider lists that provider's
\* resources and tools as if no failure had happened.
ThmC18 ==
    discovery.by # "none" =>
        LET conn == IF discovery.by = "orchestrator" THEN {"neo4j", "postgres"} ELSE {}
            es == discovery.entries
        IN  /\ ~discovery.raised
            /\ Len(es) = Cardinality(conn)
            /\ \A srv \in conn : \E i \in 1..Len(es) : es[i].server = srv
            /\ \A i \in 1..Len(es) :
                   /\ es[i].server \in conn
                   /\ es[i].server \in discovery.failed => es[i].kind = "error"
                   /\ es[i].server \notin discovery.failed =>
                          /\ es[i].kind = "listing"
                          /\ es[i].resources = RegisteredNames(es[i].server, "get_resource")
                          /\ es[i].tools = RegisteredNames(es[i].server, "execute_tool")

\* the first provider could not be enumerated and the second one was listed
WitC18 ==
    /\ discovery.by = "orchestrator"
    /\ discovery.failed = {"neo4j"}
    /\ Len(discovery.entries) = 2
    /\ discovery.entries[1].kind = "error"
    /\ discovery.entries[2].kind = "listing"
    /\ discovery.entries[2].server = "postgres"

(***************************************************************************)
(* Properties of the shapes                                                *)
(***************************************************************************)
\* C19: in the parallel and the hybrid shape every agent task exists (is running or
\* has settled) from the moment the join starts waiting; while a task is still
\* running the call has not returned, whatever the other task did; and when the call
\* is over it has returned (not raised) with every task settled, a task that raised
\* included.
ThmC19 ==
    shape_result.op = "execute_strategy" =>
        /\ shape_result.kind \in {"pending", "returned"}
        /\ shape_result.kind = "pending" =>
               /\ pq_pc = "xjoin"
               /\ \E a \in Agents : tasks[a].status = "running"
               /\ \A i \in 1..Len(call_log) : tasks[call_log[i].agent].status # "none"
        /\ shape_result.kind = "returned" =>
               /\ \A a \in Agents : tasks[a].status \in {"none", "ok", "raised"}
               /\ \A i \in 1..Len(call_log) :
                      tasks[call_log[i].agent].status \in {"ok", "raised"}
               /\ Len(shape_result.agents_used) = Len(call_log)

\* the hybrid shape has returned after one of its two tasks raised and the other
\* returned data
WitC19 ==
    /\ shape_result.op = "execute_strategy"
    /\ shape_result.strategy = "hybrid"
    /\ shape_result.kind = "returned"
    /\ tasks["neo4j"].status = "raised"
    /\ tasks["postgres"].status = "ok"
    /\ tasks["postgres"].val = "d1"

\* C20: a hybrid_query call that is over has returned (not raised); what it returns
\* went through the Result Merger; and it has one entry per agent, an error entry
\* for an agent that failed and the data of an agent that did not.
CexC20 ==
    (shape_result.op = "hybrid_query" /\ shape_result.kind # "pending") =>
        /\ shape_result.kind = "returned"
        /\ shape_result.merged
        /\ Len(shape_result.results) = 2
        /\ \A i \in 1..Len(shape_result.results) :
               LET e == shape_result.results[i] IN
               /\ e.kind = "error" <=> tasks[e.agent].status = "raised"
               /\ e.kind = "data" => e.val = tasks[e.agent].val

(***************************************************************************)
(* Properties of the custom_workflow tool                                  *)
(***************************************************************************)
\* C21: a _custom_workflow call that is over has returned (never raised); its result
\* entries are those of the steps it entered, in order; no step was entered after one
\* that failed (tool failure, unknown agent, malformed step), so a failed step is the
\* last entry, and it is marked success = false; the overall success flag is false
\* whenever a step failed.
CexC21 ==
    wf_out.kind # "none" =>
        /\ wf_out.kind = "returned"
        /\ Len(wf_out.results) = Len(wf_failed)
        /\ wf_out.completed_steps = Len(wf_failed)
        /\ \A k \in 1..Len(wf_failed) :
               /\ wf_out.results[k].step = k
               /\ wf_failed[k] =>
                      /\ k = Len(wf_failed)
                      /\ ~wf_out.results[k].success
                      /\ ~wf_out.success

(***************************************************************************)
(* Properties that hold across operations                                  *)
(***************************************************************************)
\* C33: once the agents are initialised, no step of handle_request,
\* request_resource, execute_tool, discover_servers or process_query changes any
\* agent's resources, tools or connected_servers.
ThmC33 ==
    [][ /\ resources' = resources
        /\ tools' = tools
        /\ connected_servers' = connected_servers ]_vars

\* a process_query has returned, a discovery was made, and the last exchange asked a
\* provider for a name it has not registered
WitC33 ==
    /\ payload # NoPayload
    /\ discovery # NoDiscovery
    /\ mcp_delivered # <<>>
    /\ mcp_response = ErrorResponse("no encontrado")
    /\ mcp_msg.name = "nope"

ThmC35 ==
    /\ (ret.kind = "ok" /\ DetermineExecutionStrategy(ret.val) = "sequential") =>
           SequentialRuns(ret.val.suggested_agents)
    /\ pq_strategy = "sequential" =>
           /\ SequentialRuns(pq_analysis.suggested_agents)
           /\ call_log # <<>>
           /\ call_log[1].agent = "postgres"
    /\ (payload.kind = "ok" /\ payload.data_strategy = "sequential") =>
           /\ Len(payload.results) = 2
           /\ payload.agents_used = <<"postgres", "neo4j">>

\* the sequential shape was selected for an analysis of the heuristic stage and
\* returned both steps
WitC35 ==
    /\ pq_pc = "idle"
    /\ pq_strategy = "sequential"
    /\ pq_analysis.analysis_method = "fallback"
    /\ payload.kind = "ok"
    /\ payload.data_strategy = "sequential"
    /\ Len(call_log) = 2

\* no entry of the cache, and no result answered from it, is an emergency analysis
NoEmergencyCached ==
    /\ \A i \in 1..Len(analysis_cache) :
           /\ analysis_cache[i].val.complexity # "unknown"
           /\ analysis_cache[i].val.analysis_method # "emergency"
           /\ ~analysis_cache[i].val.emergency_mode
    /\ (ret.kind = "ok" /\ ret.val.analysis_method = "cache") =>
           /\ ret.val.complexity # "unknown"
           /\ ~ret.val.emergency_mode

\* the step in which a call of analyze_query returns
CallReturns == ret'.kind = "ok" /\ ret'.n # ret.n

\* a step that returns an emergency result leaves the cache as it was, without the
\* key of the query; the cache changes only when the remote or the heuristic stage
\* returns, or in clear_cache / close; and the call that follows an emergency result
\* with the same query and context is not answered from the cache
EmergencyKeepsCache ==
    /\ (CallReturns /\ ret'.val.analysis_method = "emergency") =>
           /\ analysis_cache' = analysis_cache
           /\ GenerateCacheKey(ret'.query, ret'.ctx) \notin CacheKeys(analysis_cache')
    /\ analysis_cache' # analysis_cache =>
           \/ CallReturns /\ ret'.val.analysis_method \in {"llm", "fallback"}
           \/ analysis_cache' = <<>>
    /\ ( /\ CallReturns
         /\ ret.kind = "ok"
         /\ ret.val.analysis_method = "emergency"
         /\ ret'.query = ret.query
         /\ ret'.ctx = ret.ctx ) =>
           /\ ret'.val.analysis_method # "cache"
           /\ stages' # <<"cache">>

\* C36: a call of analyze_query that returns an emergency result leaves the cache
\* unchanged: emergency results are never stored, no result answered from the cache
\* is an emergency analysis (complexity "unknown"), and the same query asked again
\* goes through the stages again.
ThmC36 == []NoEmergencyCached /\ [][EmergencyKeepsCache]_vars

\* two calls in a row got an emergency result, the second one after going through
\* the stages again, and the cache holds nothing
WitC36 ==
    /\ ret.kind = "ok"
    /\ ret.n = 2
    /\ ret.val.analysis_method = "emergency"
    /\ stats["errors"] = 2
    /\ stats["cache_hits"] = 0
    /\ Len(stages) > 1
    /\ analysis_cache = <<>>

\* C37: when analyze_query raised (its initialisation failed), the analysis
\* process_query works with is the default one: postgres only, needs_relational,
\* not needs_graph, not needs_both, complexity "simple", confidence 0.5; the strategy
\* is single_agent, the only provider call goes to postgres and neo4j gets no task.
ThmC37 ==
    (ret.kind = "raised" /\ pq_analysis # NoAnalysis) =>
        /\ pq_analysis.original_query = pq_query
        /\ pq_analysis.needs_relational
        /\ ~pq_analysis.needs_graph
        /\ ~pq_analysis.needs_both
        /\ pq_analysis.complexity = "simple"
        /\ pq_analysis.suggested_agents = <<"postgres">>
        /\ pq_analysis.confidence = 5
        /\ pq_analysis.analysis_method = "emergency_default"
        /\ pq_strategy = "single_agent"
        /\ tasks["neo4j"] = NoTask
        /\ tasks["postgres"] # NoTask
        /\ Len(call_log) = 1
        /\ call_log[1].agent = "postgres"
        /\ payload.kind = "ok" => payload.agents_used = <<"postgres">>

\* the classifier's initialisation failed and process_query returned what postgres
\* alone answered
WitC37 ==
    /\ ret.kind = "raised"
    /\ ~pa_initialized
    /\ pq_pc = "idle"
    /\ payload.kind = "ok"
    /\ payload.strategy = "single_agent"
    /\ payload.agents_used = <<"postgres">>
    /\ Len(payload.results) = 1

\* what one process_query call has spent so far: remote attempts (attempt is the
\* index of the current one, from 0) and provider calls
PQBounded ==
    /\ attempt + 1 <= max_retries
    /\ \A i, j \in 1..Len(call_log) : call_log[i].agent = call_log[j].agent => i = j
    /\ pq_strategy = "single_agent" => Len(call_log) <= 1
    /\ pq_strategy = "sequential" => Len(call_log) <= 2
    /\ Len(call_log) <= Cardinality(Agents)

\* C38: when everything a process_query call waits for settles, the call returns;
\* it makes at most max_retries remote attempts, at most one provider call per agent
\* in the single_agent and parallel shapes and at most two provider calls in the
\* sequential shape.
ThmC38 == []PQBounded /\ (pq_pc # "idle" ~> (pq_pc = "idle" /\ payload # NoPayload))

\* a call that used its last remote attempt and then both sequential provider calls
\* has returned
WitC38 ==
    /\ pq_pc = "idle"
    /\ payload # NoPayload
    /\ attempt = max_retries - 1
    /\ pq_strategy = "sequential"
    /\ Len(call_log) = 2

\* C39: every message a provider's handle_request returns is a response, carries
\* the id and the method of the message it answers, and does not carry both a
\* result and an error.
ThmC39 ==
    /\ mcp_response # NoResponse =>
           /\ mcp_delivered # <<>>
           /\ mcp_header.type = "response"
           /\ mcp_header.id = mcp_msg.id
           /\ mcp_header.method = mcp_msg.method
           /\ ~(mcp_response.result # "None" /\ mcp_response.error # "None")
    /\ mcp_response = NoResponse => mcp_header = NoHeader

\* a message with an unsupported method and the second id was answered with an
\* error that names neither a resource nor a tool
WitC39 ==
    /\ mcp_msg.id = <<"m2">>
    /\ mcp_msg.method = "list_tools"
    /\ mcp_header = [id |-> <<"m2">>, type |-> "response", method |-> "list_tools"]
    /\ mcp_response = ErrorResponse("no soportado")

TypeOK ==
    /\ cl_pc \in {"idle", "init", "attempt", "sleep", "done"}
    /\ pq_pc \in {"idle", "analyze", "single", "par", "seq1", "seq2", "xjoin", "xseq1",
                 "xseq2", "hq", "orphan"}
    /\ mcp_pc \in {"idle", "handling"}
    /\ shape_result.kind \in {"none", "pending", "returned", "raised"}

====
